---------------------------- MODULE Spec2Model ----------------------------
(***************************************************************************)
(* A model of Strong Extract (strongex), LINUX build: the StrongHelp       *)
(* container parser (stronghelp.c), the disc reader (disc.c, files.c), the *)
(* object database (objectdb.c) and the pipeline of strongex.c.            *)
(*                                                                         *)
(* C strings are sequences of character codes (unsigned char values), so   *)
(* that strcmp(), the ",xxx" filetype suffix and the '/' <-> '.' name      *)
(* conversion are computed as the code computes them.                      *)
(***************************************************************************)
EXTENDS Integers, Sequences, FiniteSets, TLC

VARIABLES
    pc,         \* position of strongex_process_file in the current run
    run,        \* number of the current process run (1, 2, ...)
    manual,     \* the object tree held by the StrongHelp container (input)
    flip,       \* the order in which readdir() delivers a directory (input)
    nodes,      \* the objectdb_object structs, by allocation order
    objectdb_root, \* index of the root object, NULL when none
    fs,         \* the disc: path -> object
    log,        \* the filing system primitives called by objectdb_update
    msgs,       \* the messages passed to msg_report in the current run
    hist,       \* history: how this run began, the summary of its report,
                \* what the previous run did
    spc,        \* position of stronghelp_initialise_file
    buffer,     \* the loaded container: a sequence of bytes
    stronghelp_file_root,   \* NULL, or 1 when it points at the buffer
    stronghelp_file_length,
    walk,       \* the current call of stronghelp_walk_free_space
    stack,      \* the calls of the object parser that have not returned
    reads,      \* the bytes read through pointers into the buffer so far
    probe       \* a call of stronghelp_get_block_address and its result

vars == <<pc, run, manual, flip, nodes, objectdb_root, fs, log, msgs, hist,
          spc, buffer, stronghelp_file_root, stronghelp_file_length, walk,
          stack, reads, probe>>

syncVars == <<pc, run, manual, flip, nodes, objectdb_root, fs, log, msgs,
              hist>>

parseVars == <<spc, buffer, stronghelp_file_root, stronghelp_file_length,
               walk, stack, reads, probe>>

-----------------------------------------------------------------------------
(* Characters and strings.                                                 *)

\* The character codes of the characters the model's names are made of.
ASCII ==
    [c \in {" ", "$", "+", ",", "-", ".", "/", "0", "1", "9", "a", "b", "c",
            "d", "e", "f", "o", "t", "u", "x", "z", "A", "F"} |->
        CASE c = " " -> 32 [] c = "$" -> 36 [] c = "+" -> 43 [] c = "," -> 44
          [] c = "-" -> 45 [] c = "." -> 46 [] c = "/" -> 47 [] c = "0" -> 48
          [] c = "1" -> 49 [] c = "9" -> 57 [] c = "A" -> 65 [] c = "F" -> 70
          [] c = "a" -> 97 [] c = "b" -> 98 [] c = "c" -> 99 [] c = "d" -> 100
          [] c = "e" -> 101 [] c = "f" -> 102 [] c = "o" -> 111
          [] c = "t" -> 116 [] c = "u" -> 117 [] c = "x" -> 120
          [] c = "z" -> 122]

\* The C string spelt by a tuple of one-character strings.
Str(s) == [i \in 1..Len(s) |-> ASCII[s[i]]]

\* A NULL char pointer: no C string holds the byte 0.
NULLNAME == <<0>>

\* A NULL object pointer (objects are numbered from 1).
NULL == 0

RECURSIVE strcmp(_, _)
\* strcmp(): the sign of the first difference, as unsigned chars.
strcmp(a, b) ==
    IF a = <<>> /\ b = <<>> THEN 0
    ELSE IF a = <<>> THEN -1
    ELSE IF b = <<>> THEN 1
    ELSE IF Head(a) < Head(b) THEN -1
    ELSE IF Head(a) > Head(b) THEN 1
    ELSE strcmp(Tail(a), Tail(b))

\* The value of a hexadecimal digit, -1 for any other character.
HexDigit(c) ==
    IF c >= 48 /\ c <= 57 THEN c - 48
    ELSE IF c >= 97 /\ c <= 102 THEN c - 87
    ELSE IF c >= 65 /\ c <= 70 THEN c - 55
    ELSE -1

\* isspace() in the C locale.
IsSpace(c) == c = 32 \/ (c >= 9 /\ c <= 13)

RECURSIVE HexRun(_, _)
\* The value of the longest prefix of s made of hexadecimal digits.
HexRun(s, acc) ==
    IF s = <<>> \/ HexDigit(Head(s)) < 0 THEN acc
    ELSE HexRun(Tail(s), 16 * acc + HexDigit(Head(s)))

RECURSIVE SkipSpace(_)
SkipSpace(s) == IF s # <<>> /\ IsSpace(Head(s)) THEN SkipSpace(Tail(s)) ELSE s

\* strtol(s, NULL, 16): leading white space, an optional sign, an optional
\* 0x prefix, then hexadecimal digits; 0 when there is no digit.
strtol16(s) ==
    LET t == SkipSpace(s)
        neg == t # <<>> /\ Head(t) = 45
        u == IF t # <<>> /\ Head(t) \in {43, 45} THEN Tail(t) ELSE t
        v == IF Len(u) >= 3 /\ u[1] = 48 /\ u[2] \in {120, 88}
                /\ HexDigit(u[3]) >= 0
             THEN SubSeq(u, 3, Len(u)) ELSE u
        n == HexRun(v, 0)
    IN  IF neg THEN 0 - n ELSE n

\* printf("%3x"): lower case hexadecimal, padded with spaces to 3 characters.
RECURSIVE HexDigits(_)
HexDigits(n) ==
    LET d == n % 16
        ch == IF d < 10 THEN 48 + d ELSE 87 + d
    IN  IF n < 16 THEN <<ch>> ELSE Append(HexDigits(n \div 16), ch)

Format3x(n) ==
    LET h == HexDigits(n)
    IN  IF Len(h) >= 3 THEN h
        ELSE IF Len(h) = 2 THEN <<32>> \o h
        ELSE <<32, 32>> \o h

-----------------------------------------------------------------------------
(* files.c: the filename conventions (LINUX build).                        *)

FILES_TYPE_DEFAULT == 4093          \* 0xffd

\* 0xffffffffu, written as the same 32 bits read as a signed number: the
\* tool's integers are 32 bits wide.  No filetype of the model is negative.
FILES_TYPE_OMIT == -1
OBJECTDB_TYPE_DIRECTORY == 4096     \* 0x1000
OBJECTDB_TYPE_UNKNOWN == 65535      \* 0xffff

\* A reading of files_get_filetype that leaves the ,xxx extension on the
\* name; it is not the code's, and the round trip tells them apart.
files_get_filetype_untrimmed(name) ==
    LET length == Len(name)
        value == strtol16(SubSeq(name, length - 2, length))
    IN  IF length < 4 \/ name[length - 3] # 44
        THEN [filetype |-> FILES_TYPE_DEFAULT, name |-> name]
        ELSE IF value < 0 \/ value > 4095
        THEN [filetype |-> FILES_TYPE_DEFAULT, name |-> name]
        ELSE [filetype |-> value, name |-> name]

\* files_get_filetype(): the type read from a ,xxx extension, and the name
\* left in the buffer (trimmed when the extension was accepted).
files_get_filetype(name) ==
    LET length == Len(name)
        value == strtol16(SubSeq(name, length - 2, length))
    IN  IF length < 4 \/ name[length - 3] # 44
        THEN [filetype |-> FILES_TYPE_DEFAULT, name |-> name]
        ELSE IF value < 0 \/ value > 4095
        THEN [filetype |-> FILES_TYPE_DEFAULT, name |-> name]
        ELSE [filetype |-> value, name |-> SubSeq(name, 1, length - 4)]

\* files_convert_name_to_riscos(): every '.' becomes '/'.
files_convert_name_to_riscos(name) ==
    [i \in 1..Len(name) |-> IF name[i] = 46 THEN 47 ELSE name[i]]

\* files_make_filename(): "%s" for a directory, "%s,%3x" for a file, cut to
\* the allocated length - 1, then every '/' becomes '.'.
files_make_filename(name, filetype) ==
    LET length == Len(name) + (IF filetype = FILES_TYPE_OMIT THEN 1 ELSE 5)
        text == IF filetype = FILES_TYPE_OMIT
                   \/ filetype = OBJECTDB_TYPE_DIRECTORY
                THEN name
                ELSE name \o <<44>> \o Format3x(filetype)
        cut == IF Len(text) > length - 1
               THEN SubSeq(text, 1, length - 1) ELSE text
    IN  [i \in 1..Len(cut) |-> IF cut[i] = 47 THEN 46 ELSE cut[i]]

-----------------------------------------------------------------------------
(* objectdb.c: the object database.                                        *)
(*                                                                         *)
(* The functions below take and return a "world" w: the objects            *)
(* (w.nodes), the root pointer (w.root), the disc (w.fs), the log of       *)
(* filing system primitives (w.log), the error messages reported (w.msgs)  *)
(* and the value returned by the call (w.ret).  A list of objects linked   *)
(* by their next pointers is the sequence of their indexes.                *)

\* struct objectdb_details of a side that does not exist.
NoDetails ==
    [name |-> NULLNAME, size |-> 0, filetype |-> OBJECTDB_TYPE_UNKNOWN,
     data |-> NULLNAME]

\* The rows of msg_messages whose level is MSG_ERROR (msg.c, lines 62 to
\* 81).
ErrorMessages ==
    {"MSG_UNKNOWN_ERROR", "MSG_NO_MEMORY", "MSG_OPEN_FAILED",
     "MSG_LOAD_FAILED", "MSG_NO_FILE", "MSG_BAD_OFFSET", "MSG_BAD_SIZE",
     "MSG_OFFSET_RANGE", "MSG_BAD_DIR_ENTRY", "MSG_BAD_FILE_MAGIC",
     "MSG_BAD_FREE_MAGIC", "MSG_BAD_OBJECT_MAGIC", "MSG_MISSING_ROOT",
     "MSG_TOO_MANY_ROOTS", "MSG_NO_ROOT", "MSG_NO_PARENT",
     "MSG_DIR_READ_FAIL", "MSG_NOT_DIR", "MSG_BAD_FILETYPE",
     "MSG_BAD_STATUS"}

\* The messages of objectdb_output_report whose rows are not in the table
\* of msg.c; they are informational.
SummaryMessages ==
    {"MSG_SUMMARY_IDENTICAL", "MSG_SUMMARY_DIRS", "MSG_SUMMARY_FILES"}

\* The level of the row of a message that is not a verbose one.
MsgLevel(token) ==
    IF token \in ErrorMessages THEN "MSG_ERROR"
    ELSE IF token \in SummaryMessages THEN "MSG_INFO"
    ELSE "MSG_INFO"

\* msg_report(): the message is written (w.msgs holds the messages that
\* are not verbose ones), and an error-level message sets
\* msg_error_reported.
msg_report(w, token) == [w EXCEPT !.msgs = Append(@, token)]

\* msg_errors(): msg_error_reported, which is set from the first
\* error-level message on.
msg_errors(m) == \E i \in 1..Len(m) : MsgLevel(m[i]) = "MSG_ERROR"

\* A link at the head of the list; it is not the code's, and the order of
\* the list tells them apart.
LinkPositionHead(ns, list, name, i) == 1

RECURSIVE LinkPosition(_, _, _, _)
\* The loop of objectdb_link_object: the first place whose name is not
\* below the new name.
LinkPosition(ns, list, name, i) ==
    IF i <= Len(list) /\ strcmp(ns[list[i]].name, name) < 0
    THEN LinkPosition(ns, list, name, i + 1)
    ELSE i

\* objectdb_link_object(): the list with the object linked in.
objectdb_link_object(ns, list, object) ==
    LET i == LinkPosition(ns, list, ns[object].name, 1)
    IN  SubSeq(list, 1, i - 1) \o <<object>> \o SubSeq(list, i, Len(list))

RECURSIVE FindLoop(_, _, _, _, _)
FindLoop(ns, list, name, i, result) ==
    IF i > Len(list) THEN [at |-> NULL, result |-> result]
    ELSE IF ns[list[i]].name = NULLNAME
    THEN FindLoop(ns, list, name, i + 1, result)
    ELSE LET r == strcmp(ns[list[i]].name, name)
         IN  IF r < 0 THEN FindLoop(ns, list, name, i + 1, r)
             ELSE [at |-> list[i], result |-> r]

\* objectdb_find_object(): the matched object, or NULL.
objectdb_find_object(ns, list, name) ==
    LET f == FindLoop(ns, list, name, 1, -1)
    IN  IF f.result = 0 THEN f.at ELSE NULL

\* A freshly allocated struct objectdb_object.
NewObject(name, stronghelp, disc, parent) ==
    [name |-> name, status |-> "Unknown", stronghelp |-> stronghelp,
     disc |-> disc, directories |-> <<>>, files |-> <<>>, parent |-> parent]

\* The world with a new object allocated and linked into a list of its
\* parent ("directories" or "files"); w.ret is the new object.
Allocate(w, object, which) ==
    LET id == Len(w.nodes) + 1
        ns == Append(w.nodes, object)
        parent == object.parent
    IN  [w EXCEPT
            !.nodes = IF parent = NULL THEN ns
                      ELSE [ns EXCEPT ![parent][which] =
                                objectdb_link_object(ns, @, id)],
            !.ret = id]

\* An objectdb_add_stronghelp_directory that does not look at
\* objectdb_root; it is not the code's, and a second root tells them
\* apart.
objectdb_add_stronghelp_directory_unchecked(w, parent, name) ==
    LET dir == NewObject(name,
                   [name |-> name, size |-> 0,
                    filetype |-> OBJECTDB_TYPE_DIRECTORY,
                    data |-> NULLNAME],
                   NoDetails, parent)
        w1 == Allocate(w, dir, "directories")
    IN  IF parent # NULL THEN w1 ELSE [w1 EXCEPT !.root = w1.ret]

objectdb_add_stronghelp_directory(w, parent, name) ==
    IF parent = NULL /\ w.root # NULL
    THEN [msg_report(w, "MSG_TOO_MANY_ROOTS") EXCEPT !.ret = NULL]
    ELSE LET dir == NewObject(name,
                        [name |-> name, size |-> 0,
                         filetype |-> OBJECTDB_TYPE_DIRECTORY,
                         data |-> NULLNAME],
                        NoDetails, parent)
             w1 == Allocate(w, dir, "directories")
         IN  IF parent # NULL THEN w1 ELSE [w1 EXCEPT !.root = w1.ret]

objectdb_add_stronghelp_file(w, parent, name, size, filetype, data) ==
    IF parent = NULL
    THEN [msg_report(w, "MSG_NO_PARENT") EXCEPT !.ret = NULL]
    ELSE Allocate(w,
            NewObject(name,
                [name |-> name, size |-> size, filetype |-> filetype,
                 data |-> data],
                NoDetails, parent),
            "files")

\* The disc details are stored in an object that exists or was just made.
SetDisc(w, object, real_name, size, filetype) ==
    [w EXCEPT !.nodes[object].disc =
                  [name |-> real_name, size |-> size, filetype |-> filetype,
                   data |-> NULLNAME],
              !.ret = object]

objectdb_add_disc_directory(w, parent, name, real_name) ==
    IF parent = NULL /\ w.root = NULL
    THEN [msg_report(w, "MSG_NO_ROOT") EXCEPT !.ret = NULL]
    ELSE LET dir == IF parent = NULL THEN w.root
                    ELSE objectdb_find_object(w.nodes,
                            w.nodes[parent].directories, name)
             w1 == IF dir # NULL THEN [w EXCEPT !.ret = dir]
                   ELSE Allocate(w,
                            NewObject(name, NoDetails, NoDetails, parent),
                            "directories")
         IN  SetDisc(w1, w1.ret, real_name, 0, OBJECTDB_TYPE_DIRECTORY)

\* An objectdb_add_disc_file that looks the name up among the directories;
\* it is not the code's, and a directory of the same name tells them apart.
objectdb_add_disc_file_any_kind(w, parent, name, real_name, size, filetype) ==
    IF parent = NULL
    THEN [msg_report(w, "MSG_NO_PARENT") EXCEPT !.ret = NULL]
    ELSE LET file == objectdb_find_object(w.nodes,
                        w.nodes[parent].directories \o w.nodes[parent].files,
                        name)
             w1 == IF file # NULL THEN [w EXCEPT !.ret = file]
                   ELSE Allocate(w,
                            NewObject(name, NoDetails, NoDetails, parent),
                            "files")
         IN  SetDisc(w1, w1.ret, real_name, size, filetype)

objectdb_add_disc_file(w, parent, name, real_name, size, filetype) ==
    IF parent = NULL
    THEN [msg_report(w, "MSG_NO_PARENT") EXCEPT !.ret = NULL]
    ELSE LET file == objectdb_find_object(w.nodes, w.nodes[parent].files,
                                          name)
             w1 == IF file # NULL THEN [w EXCEPT !.ret = file]
                   ELSE Allocate(w,
                            NewObject(name, NoDetails, NoDetails, parent),
                            "files")
         IN  SetDisc(w1, w1.ret, real_name, size, filetype)

\* The name of an object in one of the three views.
PathPart(ns, object, type) ==
    CASE type = "AGNOSTIC" -> ns[object].name
      [] type = "STRONGHELP" -> ns[object].stronghelp.name
      [] type = "DISC" -> ns[object].disc.name

RECURSIVE objectdb_get_path(_, _, _)
\* objectdb_get_path(): the parts of the path from the root down to the
\* object, which the code joins with the separator.
objectdb_get_path(ns, object, type) ==
    IF ns[object].parent # NULL
    THEN Append(objectdb_get_path(ns, ns[object].parent, type),
                PathPart(ns, object, type))
    ELSE <<PathPart(ns, object, type)>>

\* strlen(part) of a NULL part: the path cannot be built.
BadPath(path) == \E i \in 1..Len(path) : path[i] = NULLNAME

-----------------------------------------------------------------------------
(* The disc.  fs maps the path of every object on disc (the sequence of    *)
(* its leaf names, from the output folder down) to [kind |-> "dir"] or     *)
(* [kind |-> "file", data |-> bytes].  The directory that holds the output *)
(* folder is outside the model and always exists.                          *)

IsDir(f, path) == path \in DOMAIN f /\ f[path].kind = "dir"

IsFile(f, path) == path \in DOMAIN f /\ f[path].kind = "file"

Children(f, path) ==
    {q \in DOMAIN f : Len(q) = Len(path) + 1 /\ SubSeq(q, 1, Len(path)) = path}

ParentExists(f, path) ==
    Len(path) = 1 \/ IsDir(f, SubSeq(path, 1, Len(path) - 1))

Remove(f, path) == [q \in DOMAIN f \ {path} |-> f[q]]

Store(f, path, object) ==
    [q \in DOMAIN f \cup {path} |-> IF q = path THEN object ELSE f[q]]

RECURSIVE ReadDirOrder(_, _)
\* The order in which readdir() delivers the entries S of a directory: it is
\* not specified; the model takes ascending or descending leaf names, the
\* same way in every directory and every run.
ReadDirOrder(S, descending) ==
    IF S = {} THEN <<>>
    ELSE LET first == CHOOSE p \in S : \A q \in S :
                        IF descending
                        THEN strcmp(p[Len(p)], q[Len(q)]) >= 0
                        ELSE strcmp(p[Len(p)], q[Len(q)]) <= 0
         IN  <<first>> \o ReadDirOrder(S \ {first}, descending)

RECURSIVE FilesLinkPosition(_, _, _)
FilesLinkPosition(list, name, i) ==
    IF i <= Len(list) /\ strcmp(list[i].name, name) < 0
    THEN FilesLinkPosition(list, name, i + 1)
    ELSE i

\* files_link_object(): the list with the entry linked in, in name order.
files_link_object(list, object) ==
    LET i == FilesLinkPosition(list, object.name, 1)
    IN  SubSeq(list, 1, i - 1) \o <<object>> \o SubSeq(list, i, Len(list))

\* One turn of the readdir() loop of files_read_directory_contents: the
\* struct files_object_info of the entry at path p.
DirectoryEntry(f, p) ==
    LET d_name == p[Len(p)]
        typed == files_get_filetype(d_name)
    IN  [name |-> files_convert_name_to_riscos(
                      IF f[p].kind = "dir" THEN d_name ELSE typed.name),
         real_name |-> d_name,
         filetype |-> IF f[p].kind = "dir" THEN OBJECTDB_TYPE_DIRECTORY
                      ELSE typed.filetype,
         size |-> IF f[p].kind = "dir" THEN 0 ELSE Len(f[p].data)]

RECURSIVE LinkAll(_, _, _, _)
LinkAll(f, order, i, list) ==
    IF i > Len(order) THEN list
    ELSE LinkAll(f, order, i + 1,
                 files_link_object(list, DirectoryEntry(f, order[i])))

\* files_read_directory_contents(): w.ret is the list of entries; a
\* directory that cannot be opened reports an error and gives no entry.
files_read_directory_contents(w, path) ==
    IF ~IsDir(w.fs, path)
    THEN [msg_report(w, "MSG_DIR_READ_FAIL") EXCEPT !.ret = <<>>]
    ELSE [w EXCEPT !.ret =
            LinkAll(w.fs, ReadDirOrder(Children(w.fs, path), w.flip), 1,
                    <<>>)]

\* files_read_directory_info(): w.ret is <<info>>, or <<>> for NULL.  The
\* name and the real name are the same buffer, converted in place.
files_read_directory_info(w, path, strict) ==
    LET result == path \in DOMAIN w.fs
        isdir == IsDir(w.fs, path)
        text == files_convert_name_to_riscos(path[1])
    IN  IF (~result /\ strict) \/ (result /\ ~strict /\ ~isdir)
        THEN IF result /\ ~isdir
             THEN [msg_report(w, "MSG_NOT_DIR") EXCEPT !.ret = <<>>]
             ELSE [w EXCEPT !.ret = <<>>]
        ELSE [w EXCEPT !.ret =
                <<[name |-> text, real_name |-> text, size |-> 0,
                   filetype |-> OBJECTDB_TYPE_DIRECTORY]>>]

-----------------------------------------------------------------------------
(* disc.c: the disc reader.                                                *)

RECURSIVE disc_process_object(_, _, _)
RECURSIVE disc_process_directory_entries(_, _)
RECURSIVE DiscEntriesLoop(_, _, _, _)

disc_process_object(w, entry, parent) ==
    IF entry.filetype = OBJECTDB_TYPE_DIRECTORY
    THEN LET w1 == objectdb_add_disc_directory(w, parent, entry.name,
                                               entry.real_name)
         IN  IF w1.ret = NULL THEN [w1 EXCEPT !.ret = FALSE]
             ELSE disc_process_directory_entries(w1, w1.ret)
    ELSE IF entry.filetype # OBJECTDB_TYPE_UNKNOWN
    THEN LET w1 == objectdb_add_disc_file(w, parent, entry.name,
                        entry.real_name, entry.size, entry.filetype)
         IN  [w1 EXCEPT !.ret = (w1.ret # NULL)]
    ELSE [msg_report(w, "MSG_BAD_FILETYPE") EXCEPT !.ret = FALSE]

\* The while loop of disc_process_directory_entries.
DiscEntriesLoop(w, entries, i, object) ==
    IF i > Len(entries) THEN [w EXCEPT !.ret = TRUE]
    ELSE LET w1 == disc_process_object(w, entries[i], object)
         IN  IF ~w1.ret THEN w1
             ELSE DiscEntriesLoop(w1, entries, i + 1, object)

disc_process_directory_entries(w, object) ==
    LET path == objectdb_get_path(w.nodes, object, "DISC")
    IN  IF BadPath(path) THEN [w EXCEPT !.crashed = TRUE, !.ret = FALSE]
        ELSE LET w1 == files_read_directory_contents(w, path)
             IN  DiscEntriesLoop(w1, w1.ret, 1, object)

disc_initialise_folder(w, path) ==
    LET w1 == files_read_directory_info(w, path, FALSE)
    IN  IF w1.ret = <<>> THEN [w1 EXCEPT !.ret = FALSE]
        ELSE disc_process_object(w1, w1.ret[1], NULL)

-----------------------------------------------------------------------------
(* objectdb.c: the status check.                                           *)

RECURSIVE CompareLoop(_, _, _, _, _)
\* The loop of objectdb_compare_files: fgetc() gives the next byte of the
\* file, or EOF (which is 255 as a char) and sets the end-of-file flag.
CompareLoop(data, size, file, i, feof) ==
    IF ~(i < size /\ ~feof) THEN TRUE
    ELSE LET c == IF i < Len(file) THEN file[i + 1] ELSE 255
         IN  IF data[i + 1] # c THEN FALSE
             ELSE CompareLoop(data, size, file, i + 1, i >= Len(file))

\* objectdb_compare_files(): w.ret is TRUE when the files are identical.
objectdb_compare_files(w, object) ==
    LET o == w.nodes[object]
        path == objectdb_get_path(w.nodes, object, "DISC")
    IN  IF o.stronghelp.data = NULLNAME \/ o.disc.name = NULLNAME
        THEN [w EXCEPT !.ret = FALSE]
        ELSE IF BadPath(path) THEN [w EXCEPT !.crashed = TRUE, !.ret = FALSE]
        ELSE IF ~IsFile(w.fs, path)
        THEN [msg_report(w, "MSG_OPEN_FAILED") EXCEPT !.ret = FALSE]
        ELSE [w EXCEPT !.ret = CompareLoop(o.stronghelp.data,
                                  o.stronghelp.size, w.fs[path].data, 0,
                                  FALSE)]

\* A reading of the directory rule with its first two outcomes exchanged;
\* it is not the code's, and the directory status property tells them apart.
DirectoryStatusExchanged(o) ==
    IF o.stronghelp.name = NULLNAME /\ o.disc.name # NULLNAME THEN "Added"
    ELSE IF o.stronghelp.name # NULLNAME /\ o.disc.name = NULLNAME
    THEN "Deleted"
    ELSE "Identical"

\* A reading of the file rule that tests the sizes before the filetypes; it
\* is not the code's, and the file status property tells them apart.
FileStatusSizeFirst(o, identical) ==
    IF o.stronghelp.name = NULLNAME /\ o.disc.name # NULLNAME THEN "Deleted"
    ELSE IF o.stronghelp.name # NULLNAME /\ o.disc.name = NULLNAME
    THEN "Added"
    ELSE IF o.stronghelp.size # o.disc.size THEN "SizeChanged"
    ELSE IF o.stronghelp.filetype # o.disc.filetype THEN "TypeChanged"
    ELSE IF ~identical THEN "ContentChanged"
    ELSE "Identical"

\* The status given to a directory (objectdb.c, lines 379 to 384).
DirectoryStatus(o) ==
    IF o.stronghelp.name = NULLNAME /\ o.disc.name # NULLNAME THEN "Deleted"
    ELSE IF o.stronghelp.name # NULLNAME /\ o.disc.name = NULLNAME
    THEN "Added"
    ELSE "Identical"

\* A reading of the file rule that tests the filetypes before it tests
\* which sides exist; it is not the code's, and a file of a directory that
\* was added tells them apart.
FileStatusTypeFirst(o, identical) ==
    IF o.stronghelp.filetype # o.disc.filetype THEN "TypeChanged"
    ELSE IF o.stronghelp.name = NULLNAME /\ o.disc.name # NULLNAME
    THEN "Deleted"
    ELSE IF o.stronghelp.name # NULLNAME /\ o.disc.name = NULLNAME
    THEN "Added"
    ELSE IF o.stronghelp.size # o.disc.size THEN "SizeChanged"
    ELSE IF ~identical THEN "ContentChanged"
    ELSE "Identical"

\* The status given to a file (objectdb.c, lines 388 to 399); identical is
\* the result of objectdb_compare_files, which is called only when the
\* earlier tests fail.
FileStatus(o, identical) ==
    IF o.stronghelp.name = NULLNAME /\ o.disc.name # NULLNAME THEN "Deleted"
    ELSE IF o.stronghelp.name # NULLNAME /\ o.disc.name = NULLNAME
    THEN "Added"
    ELSE IF o.stronghelp.filetype # o.disc.filetype THEN "TypeChanged"
    ELSE IF o.stronghelp.size # o.disc.size THEN "SizeChanged"
    ELSE IF ~identical THEN "ContentChanged"
    ELSE "Identical"

\* Whether the chain of tests of a file reaches objectdb_compare_files.
ReachesCompare(o) ==
    /\ ~(o.stronghelp.name = NULLNAME /\ o.disc.name # NULLNAME)
    /\ ~(o.stronghelp.name # NULLNAME /\ o.disc.name = NULLNAME)
    /\ o.stronghelp.filetype = o.disc.filetype
    /\ o.stronghelp.size = o.disc.size

RECURSIVE CheckFilesLoop(_, _, _)
\* The loop over dir->files of objectdb_check_directory_status.
CheckFilesLoop(w, list, i) ==
    IF i > Len(list) THEN w
    ELSE LET o == w.nodes[list[i]]
             w1 == IF ReachesCompare(o)
                   THEN objectdb_compare_files(w, list[i])
                   ELSE [w EXCEPT !.ret = FALSE]
         IN  CheckFilesLoop(
                [w1 EXCEPT !.nodes[list[i]].status = FileStatus(o, w1.ret)],
                list, i + 1)

RECURSIVE objectdb_check_directory_status(_, _)
RECURSIVE CheckDirectoriesLoop(_, _, _)

\* The loop over dir->directories of objectdb_check_directory_status.
CheckDirectoriesLoop(w, list, i) ==
    IF i > Len(list) THEN [w EXCEPT !.ret = TRUE]
    ELSE LET w1 == objectdb_check_directory_status(w, list[i])
         IN  IF ~w1.ret THEN w1 ELSE CheckDirectoriesLoop(w1, list, i + 1)

objectdb_check_directory_status(w, dir) ==
    IF dir = NULL THEN [w EXCEPT !.ret = FALSE]
    ELSE LET w1 == [w EXCEPT !.nodes[dir].status =
                                 DirectoryStatus(w.nodes[dir])]
             w2 == CheckFilesLoop(w1, w1.nodes[dir].files, 1)
         IN  CheckDirectoriesLoop(w2, w2.nodes[dir].directories, 1)

objectdb_check_status(w) == objectdb_check_directory_status(w, w.root)

-----------------------------------------------------------------------------
(* objectdb.c: the report.  The functions return the world and the         *)
(* struct objectdb_report_summary.                                         *)

\* struct objectdb_report_summary summary = { 0, 0, 0, 0, 0 }.
NoSummary ==
    [directories_added |-> 0, directories_deleted |-> 0, files_added |-> 0,
     files_changed |-> 0, files_deleted |-> 0]

\* The world with the messages reported, in their order.
Reported(w, tokens) == [w EXCEPT !.msgs = @ \o tokens]

\* The switch on the status of a directory (lines 505 to 521).
DirectoryReport(r, status, include_all) ==
    CASE status = "Added" ->
            [w |-> msg_report(r.w, "MSG_REPORT_DIR_ADDED"),
             summary |-> [r.summary EXCEPT !.directories_added = @ + 1]]
      [] status = "Deleted" ->
            [w |-> msg_report(r.w, "MSG_REPORT_DIR_DELETED"),
             summary |-> [r.summary EXCEPT !.directories_deleted = @ + 1]]
      [] status = "Identical" ->
            [r EXCEPT !.w = IF include_all
                            THEN msg_report(@, "MSG_REPORT_DIR_UNCHANGED")
                            ELSE @]
      [] OTHER -> [r EXCEPT !.w = msg_report(@, "MSG_BAD_STATUS")]

\* A switch that does not count a file whose filetype has changed; it is
\* not the code's, and the summary tells them apart.
FileReportTypeApart(r, status, include_all) ==
    CASE status = "Added" ->
            [w |-> msg_report(r.w, "MSG_REPORT_FILE_ADDED"),
             summary |-> [r.summary EXCEPT !.files_added = @ + 1]]
      [] status = "Deleted" ->
            [w |-> msg_report(r.w, "MSG_REPORT_FILE_DELETED"),
             summary |-> [r.summary EXCEPT !.files_deleted = @ + 1]]
      [] status = "TypeChanged" ->
            [r EXCEPT !.w = msg_report(@, "MSG_REPORT_FILE_TYPE")]
      [] status \in {"SizeChanged", "ContentChanged"} ->
            [w |-> msg_report(r.w, "MSG_REPORT_FILE_CONTENTS"),
             summary |-> [r.summary EXCEPT !.files_changed = @ + 1]]
      [] status = "Identical" ->
            [r EXCEPT !.w = IF include_all
                            THEN msg_report(@, "MSG_REPORT_FILE_UNCHANGED")
                            ELSE @]
      [] OTHER -> [r EXCEPT !.w = msg_report(@, "MSG_BAD_STATUS")]

\* The switch on the status of a file (lines 533 to 559).
FileReport(r, status, include_all) ==
    CASE status = "Added" ->
            [w |-> msg_report(r.w, "MSG_REPORT_FILE_ADDED"),
             summary |-> [r.summary EXCEPT !.files_added = @ + 1]]
      [] status = "Deleted" ->
            [w |-> msg_report(r.w, "MSG_REPORT_FILE_DELETED"),
             summary |-> [r.summary EXCEPT !.files_deleted = @ + 1]]
      [] status = "TypeChanged" ->
            [w |-> msg_report(r.w, "MSG_REPORT_FILE_TYPE"),
             summary |-> [r.summary EXCEPT !.files_changed = @ + 1]]
      [] status \in {"SizeChanged", "ContentChanged"} ->
            [w |-> msg_report(r.w, "MSG_REPORT_FILE_CONTENTS"),
             summary |-> [r.summary EXCEPT !.files_changed = @ + 1]]
      [] status = "Identical" ->
            [r EXCEPT !.w = IF include_all
                            THEN msg_report(@, "MSG_REPORT_FILE_UNCHANGED")
                            ELSE @]
      [] OTHER -> [r EXCEPT !.w = msg_report(@, "MSG_BAD_STATUS")]

RECURSIVE ReportFilesLoop(_, _, _, _)
\* The loop over dir->files of objectdb_output_directory_report.  The
\* agnostic name of an object is never NULL, so the path is built.
ReportFilesLoop(r, list, i, include_all) ==
    IF i > Len(list) THEN r
    ELSE ReportFilesLoop(
             FileReport(r, r.w.nodes[list[i]].status, include_all),
             list, i + 1, include_all)

RECURSIVE objectdb_output_directory_report(_, _, _)
RECURSIVE ReportDirectoriesLoop(_, _, _, _)

\* The loop over dir->directories of objectdb_output_directory_report.
ReportDirectoriesLoop(r, list, i, include_all) ==
    IF i > Len(list) THEN [r EXCEPT !.w.ret = TRUE]
    ELSE LET r1 == objectdb_output_directory_report(r, list[i], include_all)
         IN  IF ~r1.w.ret THEN r1
             ELSE ReportDirectoriesLoop(r1, list, i + 1, include_all)

objectdb_output_directory_report(r, dir, include_all) ==
    IF dir = NULL THEN [r EXCEPT !.w.ret = FALSE]
    ELSE LET r1 == DirectoryReport(r, r.w.nodes[dir].status, include_all)
             r2 == ReportFilesLoop(r1, r.w.nodes[dir].files, 1, include_all)
         IN  ReportDirectoriesLoop(r2, r.w.nodes[dir].directories, 1,
                                   include_all)

\* objectdb_output_report(): the report of every object, then the summary
\* messages.
objectdb_output_report(w, include_all) ==
    LET r == objectdb_output_directory_report(
                 [w |-> w, summary |-> NoSummary], w.root, include_all)
        s == r.summary
        dirs == s.directories_added > 0 \/ s.directories_deleted > 0
        files == s.files_added > 0 \/ s.files_changed > 0
                     \/ s.files_deleted > 0
    IN  IF ~r.w.ret THEN r
        ELSE IF s = NoSummary
        THEN [r EXCEPT !.w = msg_report(@, "MSG_SUMMARY_IDENTICAL")]
        ELSE [r EXCEPT !.w = Reported(@,
                  (IF dirs THEN <<"MSG_SUMMARY_DIRS">> ELSE <<>>)
                      \o (IF files THEN <<"MSG_SUMMARY_FILES">> ELSE <<>>))]

-----------------------------------------------------------------------------
(* files.c: the filing system primitives.  Each call is appended to w.log  *)
(* with its outcome and with what the disc held when it was made: parent   *)
(* (the directory that holds the path exists) and empty (nothing lies      *)
(* below the path).  A primitive fails when the disc refuses it, and the   *)
(* call numbered w.failAt fails for a reason outside the model (an I/O     *)
(* error, a permission).                                                   *)

Injected(w) == w.failAt = Len(w.log) + 1

Logged(w, op, path, ok, f) ==
    [w EXCEPT !.log = Append(@, [op |-> op, path |-> path, ok |-> ok,
                                 parent |-> ParentExists(w.fs, path),
                                 empty |-> Children(w.fs, path) = {}]),
              !.fs = f,
              !.ret = ok]

\* files_make_directory(): mkdir().
files_make_directory(w, path) ==
    LET ok == ~Injected(w) /\ path \notin DOMAIN w.fs
              /\ ParentExists(w.fs, path)
    IN  Logged(w, "make_directory", path, ok,
               IF ok THEN Store(w.fs, path, [kind |-> "dir"]) ELSE w.fs)

\* files_delete_directory(): rmdir().
files_delete_directory(w, path) ==
    LET ok == ~Injected(w) /\ IsDir(w.fs, path)
              /\ Children(w.fs, path) = {}
    IN  Logged(w, "delete_directory", path, ok,
               IF ok THEN Remove(w.fs, path) ELSE w.fs)

\* files_write_file(): fopen(path, "w") creates or truncates the file; then
\* fwrite() writes the data, or writes nothing (w.short) and the loop ends.
files_write_file(w, path, data, length) ==
    LET opened == ~(Injected(w) /\ ~w.short) /\ ~IsDir(w.fs, path)
                  /\ ParentExists(w.fs, path)
        written == IF Injected(w) /\ w.short THEN 0 ELSE length
        to_write == length - written
    IN  Logged(w, "write_file", path, opened /\ ~(to_write > 0),
               IF ~opened THEN w.fs
               ELSE Store(w.fs, path,
                        [kind |-> "file",
                         data |-> SubSeq(data, 1, written)]))

\* files_set_filetype(): nothing to do in the LINUX build.
files_set_filetype(w, path, filetype) ==
    Logged(w, "set_filetype", path, TRUE, w.fs)

\* files_delete_file(): unlink().
files_delete_file(w, path) ==
    LET ok == ~Injected(w) /\ IsFile(w.fs, path)
    IN  Logged(w, "delete_file", path, ok,
               IF ok THEN Remove(w.fs, path) ELSE w.fs)

-----------------------------------------------------------------------------
(* objectdb.c: the update of the disc.                                     *)

\* The path of an object on disc, for a filing system call: w.ret is FALSE
\* and the run is lost when a part of the path is a NULL pointer.
Crash(w) == [w EXCEPT !.crashed = TRUE, !.ret = FALSE]

\* dir->disc.name = files_make_filename(...), on lines 631, 650 and 697.
NameOnDisc(w, object) ==
    [w EXCEPT !.nodes[object].disc.name =
        files_make_filename(w.nodes[object].stronghelp.name,
                            w.nodes[object].stronghelp.filetype)]

\* The two calls that write a file and set its type (lines 660 to 663 and
\* 707 to 710).
WriteObject(w, object) ==
    LET o == w.nodes[object]
        path == objectdb_get_path(w.nodes, object, "DISC")
    IN  IF BadPath(path) THEN Crash(w)
        ELSE LET w1 == files_write_file(w, path, o.stronghelp.data,
                                        o.stronghelp.size)
             IN  IF ~w1.ret THEN w1
                 ELSE files_set_filetype(w1, path, o.stronghelp.filetype)

\* The call that deletes a file (lines 668 to 677 and 684 to 693).
DeleteObject(w, object) ==
    LET path == objectdb_get_path(w.nodes, object, "DISC")
    IN  IF BadPath(path) THEN Crash(w) ELSE files_delete_file(w, path)

\* The switch of objectdb_update_directory, for one file.
UpdateFile(w, object) ==
    LET status == w.nodes[object].status
    IN  CASE status = "Added" -> WriteObject(NameOnDisc(w, object), object)
          [] status = "Deleted" -> DeleteObject(w, object)
          [] status \in {"TypeChanged", "SizeChanged", "ContentChanged"} ->
                LET w1 == DeleteObject(w, object)
                IN  IF ~w1.ret THEN w1
                    ELSE WriteObject(NameOnDisc(w1, object), object)
          [] OTHER -> [w EXCEPT !.ret = TRUE]

RECURSIVE UpdateFilesLoopContinue(_, _, _)
\* A reading of the loop over dir->files that goes on to the next file when
\* one has failed; it is not the code's, and the abort property tells them
\* apart.
UpdateFilesLoopContinue(w, list, i) ==
    IF i > Len(list) THEN [w EXCEPT !.ret = TRUE]
    ELSE UpdateFilesLoopContinue(UpdateFile(w, list[i]), list, i + 1)

RECURSIVE UpdateFilesLoop(_, _, _)
\* The loop over dir->files of objectdb_update_directory.
UpdateFilesLoop(w, list, i) ==
    IF i > Len(list) THEN [w EXCEPT !.ret = TRUE]
    ELSE LET w1 == UpdateFile(w, list[i])
         IN  IF ~w1.ret THEN w1 ELSE UpdateFilesLoop(w1, list, i + 1)

\* A reading of lines 630 to 644 that names an added directory and does not
\* create it; it is not the code's, and the parent property tells them
\* apart.
CreateDirectoryNamedOnly(w, dir) ==
    IF w.nodes[dir].status # "Added" THEN [w EXCEPT !.ret = TRUE]
    ELSE [NameOnDisc(w, dir) EXCEPT !.ret = TRUE]

\* A reading of lines 630 to 644 that builds the path of an added directory
\* before it gives the directory its name on disc; it is not the code's,
\* and a directory of the manual that is not on disc tells them apart.
CreateDirectoryUnnamed(w, dir) ==
    IF w.nodes[dir].status # "Added" THEN [w EXCEPT !.ret = TRUE]
    ELSE LET path == objectdb_get_path(w.nodes, dir, "DISC")
         IN  IF BadPath(path) THEN Crash(w)
             ELSE files_make_directory(NameOnDisc(w, dir), path)

\* Lines 630 to 644: a directory that was added is named and created.
CreateDirectory(w, dir) ==
    IF w.nodes[dir].status # "Added" THEN [w EXCEPT !.ret = TRUE]
    ELSE LET w1 == NameOnDisc(w, dir)
             path == objectdb_get_path(w1.nodes, dir, "DISC")
         IN  IF BadPath(path) THEN Crash(w1)
             ELSE files_make_directory(w1, path)

\* Lines 728 to 740: a directory that was deleted is removed.
RemoveDirectory(w, dir) ==
    IF w.nodes[dir].status # "Deleted" THEN [w EXCEPT !.ret = TRUE]
    ELSE LET path == objectdb_get_path(w.nodes, dir, "DISC")
         IN  IF BadPath(path) THEN Crash(w)
             ELSE files_delete_directory(w, path)

RECURSIVE objectdb_update_directory(_, _)
RECURSIVE UpdateDirectoriesLoop(_, _, _)

\* The loop over dir->directories of objectdb_update_directory.
UpdateDirectoriesLoop(w, list, i) ==
    IF i > Len(list) THEN [w EXCEPT !.ret = TRUE]
    ELSE LET w1 == objectdb_update_directory(w, list[i])
         IN  IF ~w1.ret THEN w1 ELSE UpdateDirectoriesLoop(w1, list, i + 1)

objectdb_update_directory(w, dir) ==
    IF dir = NULL THEN [w EXCEPT !.ret = FALSE]
    ELSE LET w1 == CreateDirectory(w, dir)
         IN  IF ~w1.ret THEN w1
             ELSE LET w2 == UpdateFilesLoop(w1, w1.nodes[dir].files, 1)
                  IN  IF ~w2.ret THEN w2
                      ELSE LET w3 == UpdateDirectoriesLoop(w2,
                                        w2.nodes[dir].directories, 1)
                           IN  IF ~w3.ret THEN w3
                               ELSE RemoveDirectory(w3, dir)

\* Lines 592 to 608: the root directory is made when it is not on disc.
EnsureRoot(w) ==
    IF w.root = NULL THEN Crash(w)
    ELSE LET path == objectdb_get_path(w.nodes, w.root, "DISC")
         IN  IF BadPath(path) THEN Crash(w)
             ELSE LET w1 == files_read_directory_info(w, path, TRUE)
                  IN  IF w1.ret = <<>> THEN files_make_directory(w1, path)
                      ELSE [w1 EXCEPT !.ret = TRUE]

objectdb_update(w) ==
    LET w1 == EnsureRoot(w)
    IN  IF ~w1.ret THEN w1 ELSE objectdb_update_directory(w1, w1.root)

-----------------------------------------------------------------------------
(* The StrongHelp side of a run, from a decoded container.  An entry of    *)
(* the manual is [kind, name, filetype, data, entries]; the byte level     *)
(* parser is modelled further down.                                        *)

RECURSIVE ManualObject(_, _, _)
RECURSIVE ManualEntriesLoop(_, _, _, _)

\* stronghelp_process_object, for an entry whose block was decoded.
ManualObject(w, entry, parent) ==
    IF entry.kind = "file"
    THEN LET w1 == objectdb_add_stronghelp_file(w, parent, entry.name,
                        Len(entry.data), entry.filetype, entry.data)
         IN  [w1 EXCEPT !.ret = (w1.ret # NULL)]
    ELSE LET w1 == objectdb_add_stronghelp_directory(w, parent, entry.name)
         IN  IF w1.ret = NULL THEN [w1 EXCEPT !.ret = FALSE]
             ELSE ManualEntriesLoop(w1, entry.entries, 1, w1.ret)

\* The while loop of stronghelp_process_directory_entries.
ManualEntriesLoop(w, entries, i, object) ==
    IF i > Len(entries) THEN [w EXCEPT !.ret = TRUE]
    ELSE LET w1 == ManualObject(w, entries[i], object)
         IN  IF ~w1.ret THEN w1
             ELSE ManualEntriesLoop(w1, entries, i + 1, object)

-----------------------------------------------------------------------------
(* The inputs of the pipeline.                                             *)

MaxManualFiles == 1     \* files in the root directory of the manual
MaxDiscFiles == 2       \* files in the output folder before the first run
MaxFailAt == 4          \* the primitive call that may fail is among the first

File(name, filetype, data) ==
    [kind |-> "file", name |-> name, filetype |-> filetype, data |-> data,
     entries |-> <<>>]

Directory(name, entries) ==
    [kind |-> "dir", name |-> name, filetype |-> OBJECTDB_TYPE_DIRECTORY,
     data |-> <<>>, entries |-> entries]

\* The files a manual directory is filled from: a name with a '/', types
\* of three and of two hexadecimal digits, an empty file, and a name with a
\* '.', which no RISC OS leaf name holds.
ManualFiles ==
    {File(Str(<<"a", "/", "b">>), 4095, <<1>>),
     File(Str(<<"a", "/", "b">>), 4095, <<>>),
     File(Str(<<"a", "/", "b">>), 173, <<1>>),
     File(Str(<<"a", ".", "b">>), 4095, <<1>>)}

\* The subdirectories of the root of the manual.
ManualDirectories ==
    {<<>>,
     <<Directory(Str(<<"d">>), <<>>)>>,
     <<Directory(Str(<<"d">>),
                 <<File(Str(<<"a", "/", "b">>), 4095, <<1>>)>>)>>}

SeqsUpTo(S, n) == UNION {[1..k -> S] : k \in 0..n}

Manuals ==
    {Directory(Str(<<"$">>), files \o dirs) :
        files \in SeqsUpTo(ManualFiles, MaxManualFiles),
        dirs \in ManualDirectories}

\* The output folder named on the command line.
OutFolder == <<Str(<<"o", "u", "t">>)>>

\* The files the output folder is filled from before the first run.
DiscContents ==
    {<<Str(<<"a", ".", "b", ",", "f", "f", "f">>), <<1>>>>,
     <<Str(<<"a", ".", "b", ",", "f", "f", "f">>), <<2>>>>,
     <<Str(<<"a", ".", "b", ",", " ", "a", "d">>), <<1>>>>,
     <<Str(<<"a", ".", "b">>), <<1>>>>}

AFile(data) == [kind |-> "file", data |-> data]

ADir == [kind |-> "dir"]

\* The function with the graph S, a set of <<path, object>> pairs.
FsOf(S) == [p \in {x[1] : x \in S} |-> (CHOOSE x \in S : x[1] = p)[2]]

\* What the directory d of the output folder may hold before the first run.
DiscDirectories ==
    LET d == OutFolder \o <<Str(<<"d">>)>>
        e == d \o <<Str(<<"e">>)>>
        fff == Str(<<"a", ".", "b", ",", "f", "f", "f">>)
        ad == Str(<<"a", ".", "b", ",", " ", "a", "d">>)
    IN  {{},
         {<<d, ADir>>},
         {<<d, ADir>>, <<d \o <<fff>>, AFile(<<1>>)>>},
         {<<d, ADir>>, <<d \o <<fff>>, AFile(<<1>>)>>,
          <<d \o <<ad>>, AFile(<<1>>)>>},
         {<<d, ADir>>, <<e, ADir>>, <<e \o <<fff>>, AFile(<<1>>)>>}}

\* At most MaxDiscFiles of them, under different leaf names.
DiscFiles ==
    {X \in SUBSET DiscContents :
        /\ Cardinality(X) <= MaxDiscFiles
        /\ \A x, y \in X : x[1] = y[1] => x = y}

\* The disc before the first run: no output folder, a file in its place, or
\* a folder with files and one subdirectory.
Discs ==
    {FsOf({}), FsOf({<<OutFolder, AFile(<<>>)>>})}
    \cup {FsOf({<<OutFolder, ADir>>}
               \cup {<<OutFolder \o <<x[1]>>, AFile(x[2])>> : x \in files}
               \cup dir) :
            files \in DiscFiles, dir \in DiscDirectories}

\* The output folder is absent, or holds nothing.
EmptyDisc(f) == \A p \in DOMAIN f : p = OutFolder /\ f[p].kind = "dir"

-----------------------------------------------------------------------------
(* strongex.c: the pipeline of strongex_process_file, one action a stage.  *)

\* The world the stages work on, with the failure the environment injects.
World(failAt, short) ==
    [nodes |-> nodes, root |-> objectdb_root, fs |-> fs, log |-> log,
     msgs |-> msgs, flip |-> flip, failAt |-> failAt, short |-> short,
     crashed |-> FALSE, ret |-> TRUE]

Commit(w, next) ==
    /\ nodes' = w.nodes
    /\ objectdb_root' = w.root
    /\ fs' = w.fs
    /\ log' = w.log
    /\ msgs' = w.msgs
    /\ pc' = IF w.crashed THEN "crashed" ELSE IF w.ret THEN next ELSE "failed"

\* No call of stronghelp_walk_free_space: its offset, and the depth of the
\* recursion, which is counted modulo DepthModulus.
NoWalk == [offset |-> 0 - 1, depth |-> 0]

\* No container is being parsed.
NoReads == [bytes |-> {}, null |-> FALSE]

NoProbe ==
    [called |-> FALSE, offset |-> 0, min_size |-> 0, ret |-> 0 - 1,
     root |-> NULL, length |-> 0]

ParseIdle ==
    /\ spc = "idle"
    /\ buffer = <<>>
    /\ stronghelp_file_root = NULL
    /\ stronghelp_file_length = 0
    /\ walk = NoWalk
    /\ stack = <<>>
    /\ reads = NoReads
    /\ probe = NoProbe

NoRun == [update |-> FALSE, ok |-> FALSE, empty |-> FALSE]

Init ==
    /\ pc = "start"
    /\ run = 1
    /\ manual \in Manuals
    /\ flip \in BOOLEAN
    /\ fs \in Discs
    /\ nodes = <<>>
    /\ objectdb_root = NULL
    /\ log = <<>>
    /\ msgs = <<>>
    /\ hist = [empty |-> EmptyDisc(fs), update |-> FALSE, last |-> NoRun,
             report |-> NoSummary]
    /\ ParseIdle

\* Lines 209 to 211: the StrongHelp side of the tree is built.
StrongHelpBuild ==
    /\ pc = "start"
    /\ Commit(ManualObject(World(0, FALSE), manual, NULL), "read_disc")
    /\ UNCHANGED <<run, manual, flip, hist, parseVars>>

\* Lines 215 to 217: the disc side of the tree is built.
DiscBuild ==
    /\ pc = "read_disc"
    /\ Commit(disc_initialise_folder(World(0, FALSE), OutFolder), "compare")
    /\ UNCHANGED <<run, manual, flip, hist, parseVars>>

\* Lines 221 to 223: the status of every object is worked out.
CheckStatus ==
    /\ pc = "compare"
    /\ Commit(objectdb_check_status(World(0, FALSE)), "report")
    /\ UNCHANGED <<run, manual, flip, hist, parseVars>>

\* Lines 227 to 228: the report is written, with or without -all.
Report ==
    /\ pc = "report"
    /\ \E include_all \in BOOLEAN :
          LET r == objectdb_output_report(World(0, FALSE), include_all)
          IN  /\ msgs' = r.w.msgs
              /\ hist' = [hist EXCEPT !.report = r.summary]
              /\ pc' = IF r.w.ret THEN "update" ELSE "failed"
    /\ UNCHANGED <<run, manual, flip, nodes, objectdb_root, fs, log,
                   parseVars>>

\* Lines 230 to 234, with -update: the disc is updated.  The environment
\* may make one of the first MaxFailAt primitive calls fail.
Update ==
    /\ pc = "update"
    /\ \E failAt \in 0..MaxFailAt, short \in BOOLEAN :
          Commit(objectdb_update(World(failAt, short)), "complete")
    /\ hist' = [hist EXCEPT !.update = TRUE]
    /\ UNCHANGED <<run, manual, flip, parseVars>>

\* A run without -update that updates the disc all the same; it is not the
\* code's, and the output folder tells them apart.
SkipUpdateSyncs ==
    /\ pc = "update"
    /\ Commit(objectdb_update(World(0, FALSE)), "complete")
    /\ UNCHANGED <<run, manual, flip, hist, parseVars>>

\* Lines 230 to 238, without -update.
SkipUpdate ==
    /\ pc = "update"
    /\ pc' = "complete"
    /\ UNCHANGED <<run, manual, flip, nodes, objectdb_root, fs, log, msgs,
                   hist, parseVars>>

\* After a run that updated the disc and ended with success, the program is
\* run a second time on the same manual and the same output folder.
NextRun ==
    /\ pc = "complete"
    /\ hist.update
    /\ run = 1
    /\ run' = run + 1
    /\ pc' = "start"
    /\ nodes' = <<>>
    /\ objectdb_root' = NULL
    /\ log' = <<>>
    /\ msgs' = <<>>
    /\ hist' = [empty |-> EmptyDisc(fs), update |-> FALSE,
                last |-> [update |-> hist.update, ok |-> pc = "complete",
                          empty |-> hist.empty],
                report |-> NoSummary]
    /\ UNCHANGED <<manual, flip, fs, parseVars>>

Next ==
    \/ StrongHelpBuild
    \/ DiscBuild
    \/ CheckStatus
    \/ Report
    \/ Update
    \/ SkipUpdate
    \/ NextRun

Spec == Init /\ [][Next]_vars

\* Between the reading of the disc and the comparison, another process
\* takes a file of the output folder away, or cuts its last byte off: the
\* fopen() of the comparison then fails, or its reads end early.
DiscChanges ==
    /\ pc = "compare"
    /\ \E path \in DOMAIN fs :
          /\ IsFile(fs, path)
          /\ \/ fs' = Remove(fs, path)
             \/ /\ fs[path].data # <<>>
                /\ fs' = [fs EXCEPT ![path].data =
                                        SubSeq(@, 1, Len(@) - 1)]
    /\ UNCHANGED <<pc, run, manual, flip, nodes, objectdb_root, log, msgs,
                   hist, parseVars>>

NextStatus ==
    \/ StrongHelpBuild
    \/ DiscBuild
    \/ DiscChanges
    \/ CheckStatus

\* The pipeline up to the status check, on a disc that changes under it.
SpecStatus == Init /\ [][NextStatus]_vars

-----------------------------------------------------------------------------
(* stronghelp.c: the container parser.  The buffer is a sequence of bytes  *)
(* (0 .. 255); the byte at offset o of the file is buffer[o + 1].  A       *)
(* pointer into the buffer is the offset it points at.                     *)

STRONGHELP_FILE_WORD == 1347175752      \* 0x504c4548, "HELP"
STRONGHELP_DIR_WORD == 609372484        \* 0x24524944, "DIR$"
STRONGHELP_DATA_WORD == 1096040772      \* 0x41544144, "DATA"
STRONGHELP_FREE_WORD == 1162170950      \* 0x45455246, "FREE"

\* sizeof() of the five structs.
SizeofRoot == 16
SizeofDirEntry == 28
SizeofDirBlock == 12
SizeofDataBlock == 8
SizeofFreeBlock == 12

\* A NULL pointer into the buffer.
NULLADDR == -1

\* The int32_t stored little-endian in the four bytes at offset o of b.
Word(b, o) ==
    LET top == b[o + 4]
    IN  b[o + 1] + 256 * b[o + 2] + 65536 * b[o + 3]
        + 16777216 * (IF top >= 128 THEN top - 256 ELSE top)

\* The offsets of the n bytes from offset o.
Bytes(o, n) == {o + k : k \in 0..(n - 1)}

RECURSIVE NameEnd(_, _)
\* The offset of the first NUL byte of b at or after offset o; Len(b), the
\* offset of the first byte after the buffer, when there is none.
NameEnd(b, o) ==
    IF o >= Len(b) THEN Len(b)
    ELSE IF b[o + 1] = 0 THEN o
    ELSE NameEnd(b, o + 1)

\* The C string at offset o of b, when its NUL is in the buffer.
NameAt(b, o) == SubSeq(b, o + 1, NameEnd(b, o))

\* A reading of stronghelp_get_block_address that accepts a block that ends
\* at the end of the file; it is not the code's, and the contract of the
\* function tells them apart.
stronghelp_get_block_address_inclusive(root, length, offset, min_size) ==
    IF root = NULL
    THEN [ret |-> NULLADDR, msgs |-> <<"MSG_NO_FILE">>]
    ELSE IF offset < 0
    THEN [ret |-> NULLADDR, msgs |-> <<"MSG_BAD_OFFSET">>]
    ELSE IF offset + min_size > length
    THEN [ret |-> NULLADDR, msgs |-> <<"MSG_OFFSET_RANGE">>]
    ELSE [ret |-> offset, msgs |-> <<>>]

\* stronghelp_get_block_address(), given the two globals it reads: the
\* address, or NULLADDR, and the error messages it reports.  min_size is a
\* size_t, so the test min_size < 0 of line 344 never holds.  The sum is
\* made in size_t; the lengths of the model are not negative, so the
\* comparison is the one of the numbers.
stronghelp_get_block_address(root, length, offset, min_size) ==
    IF root = NULL
    THEN [ret |-> NULLADDR, msgs |-> <<"MSG_NO_FILE">>]
    ELSE IF offset < 0
    THEN [ret |-> NULLADDR, msgs |-> <<"MSG_BAD_OFFSET">>]
    ELSE IF offset + min_size >= length
    THEN [ret |-> NULLADDR, msgs |-> <<"MSG_OFFSET_RANGE">>]
    ELSE [ret |-> offset, msgs |-> <<>>]

-----------------------------------------------------------------------------
(* The containers the parser is given.                                     *)

\* The four bytes of an int32_t, little-endian.
LE(n) ==
    LET m == IF n < 0 THEN (n + 2147483647) + 1 ELSE n
        top == m \div 16777216
    IN  <<m % 256, (m \div 256) % 256, (m \div 65536) % 256,
          IF n < 0 THEN top + 128 ELSE top>>

\* A struct stronghelp_file_dir_entry with a name of four bytes.
Entry(object_offset, load_address, size, filename) ==
    LE(object_offset) \o LE(load_address) \o LE(0) \o LE(size) \o LE(256)
        \o LE(0) \o filename

\* A container of 124 bytes: the header, the entry of the root directory at
\* 16, the block of the root directory at 44 with one entry at 56, a data
\* block of one byte at 84, two free blocks at 96 and 108, and four bytes
\* of padding.  The fields that the parser follows are parameters.
Container(p) ==
    LE(STRONGHELP_FILE_WORD) \o LE(44) \o LE(290) \o LE(p.free_offset)
    \o Entry(44, -768, p.used, <<36, 0, 0, 0>>)
    \o LE(STRONGHELP_DIR_WORD) \o LE(40) \o LE(p.used)
    \o Entry(p.object_offset, -256, p.size, p.filename)
    \o LE(STRONGHELP_DATA_WORD) \o LE(9) \o <<1, 0, 0, 0>>
    \o LE(STRONGHELP_FREE_WORD) \o LE(12) \o LE(p.next1)
    \o LE(STRONGHELP_FREE_WORD) \o LE(12) \o LE(p.next2)
    \o <<0, 0, 0, 0>>

\* The well-formed container: an empty free list, a root with the file a.
Plain ==
    [free_offset |-> -1, next1 |-> -1, next2 |-> -1, used |-> 40,
     object_offset |-> 84, filename |-> <<97, 0, 0, 0>>, size |-> 9]

\* The free lists: empty, one or two blocks, a block that is its own
\* successor, two blocks in a ring, an offset at a block of another kind,
\* at the last bytes of the file and beyond the file.
FreeLists ==
    {[Plain EXCEPT !.free_offset = f, !.next1 = n1, !.next2 = n2] :
        f \in {-1, 96, 108, 84, 120, 4000},
        n1 \in {-1, 108, 96, 4000},
        n2 \in {-1, 96, 108}}

\* The directories: the entry of the root points at a data block, at the
\* header (an empty file), at the block of the root itself, at a free
\* block, at the last bytes of the file and beyond it; the used count is
\* right, the header alone, less than the header, too large, negative, or
\* so large that its sum with the offset is no int32_t; the name
\* ends in its four bytes or runs on into the bytes that follow.
Directories ==
    {[Plain EXCEPT !.used = u, !.object_offset = o, !.filename = n] :
        u \in {40, 12, 8, 4000, 0 - 8, 2147483647},
        o \in {84, 0, 44, 96, 116, 4000},
        n \in {<<97, 0, 0, 0>>, <<97, 98, 99, 100>>}}

\* The lengths a container is cut to: nothing, the header alone, one byte
\* more, the header and the root entry, the first bytes of the block of the
\* root, the entry of the file and one byte more, and the whole file.
Lengths == {0, 16, 17, 44, 45, 54, 85, 124}

\* The size field of the entry of the file: the header and one byte, the
\* header alone, less than the header, nothing, and more than the file
\* holds after the header, by some bytes or by many.
Sizes == {[Plain EXCEPT !.size = s] : s \in {9, 8, 4, 0, 48, 4000}}

\* The names of the file: of no byte, and of two and three bytes.
Filenames ==
    {[Plain EXCEPT !.filename = n] :
        n \in {<<0, 0, 0, 0>>, <<97, 98, 0, 0>>, <<97, 98, 99, 0>>}}

Containers ==
    {SubSeq(Container(p), 1, n) :
        p \in FreeLists \cup Directories \cup Filenames \cup Sizes,
        n \in Lengths}

-----------------------------------------------------------------------------
(* stronghelp.c: stronghelp_initialise_file, one action for each call of   *)
(* its functions.  The calls of the object parser that have not returned   *)
(* are the frames of stack: a call of stronghelp_process_object for the    *)
(* entry at offset, with the parent object, or the loop of                 *)
(* stronghelp_process_directory_entries at offset, up to end, for object.  *)

MaxObjects == 4         \* the parser stops when the tree has that many nodes
DepthModulus == 2       \* the depth of the free space walk is kept modulo this

ObjectCall(entry, parent) ==
    [kind |-> "object", offset |-> entry, end |-> 0, object |-> parent]

EntriesLoop(offset, end, object) ==
    [kind |-> "entries", offset |-> offset, end |-> end, object |-> object]

\* What a read outside the buffer, or through a NULL pointer, may lead to:
\* the behaviour is undefined.
Undefined == {"crashed", "failed", "done"}

\* The result of a step of the object parser.
Step(position, stk, w, bytes, undefined) ==
    [spc |-> position, stack |-> stk, nodes |-> w.nodes, root |-> w.root,
     msgs |-> w.msgs, bytes |-> bytes, undefined |-> undefined]

\* A call returns false: every caller returns false in its turn.
Failed(w, tokens, bytes) ==
    Step("failed", <<>>, [w EXCEPT !.msgs = @ \o tokens], bytes, FALSE)

\* A step that rounds the size of the entry up to a word; it is not the
\* code's, and a name of one byte tells them apart.
EntryStepRoundedUp(length) == 4 * ((SizeofDirEntry + length + 3) \div 4)

\* Line 283: (sizeof(struct stronghelp_file_dir_entry) + strlen(filename))
\* & ~3, the distance to the next entry.
EntryStep(length) == 4 * ((SizeofDirEntry + length) \div 4)

\* stronghelp_process_object has returned true to its caller: to
\* stronghelp_initialise_file, or to the loop of lines 274 to 283, which
\* steps over the entry by the strlen() of its name (line 283); strlen()
\* reads up to the NUL byte, wherever that is.
Returned(stk, w, bytes) ==
    IF stk = <<>> THEN Step("done", <<>>, w, bytes, FALSE)
    ELSE LET top == stk[Len(stk)]
             name_end == NameEnd(buffer, top.offset + 24)
             length == name_end - (top.offset + 24)
             next == top.offset + EntryStep(length)
             b == bytes \cup ((top.offset + 24)..name_end)
         IN  IF name_end >= Len(buffer)
             THEN Step("undefined", <<>>, w, b, TRUE)
             ELSE Step("entries", [stk EXCEPT ![Len(stk)].offset = next], w,
                       b, FALSE)

\* The bytes of the file that a data pointer and a size cover.
Payload(pointer, size) ==
    SubSeq(buffer, pointer + 1,
           IF pointer + size > Len(buffer) THEN Len(buffer)
           ELSE pointer + size)

RECURSIVE CommonPrefix(_, _, _)
\* The number of leading bytes that two strings share.
CommonPrefix(a, b, k) ==
    IF k < Len(a) /\ k < Len(b) /\ a[k + 1] = b[k + 1]
    THEN CommonPrefix(a, b, k + 1)
    ELSE k

RECURSIVE LinkReads(_, _, _, _)
\* The bytes of the name at offset o that the strcmp() calls of
\* objectdb_link_object read, for the list it is linked into: each call
\* reads up to the first byte that differs from the name it is compared
\* with, or to the NUL byte.
LinkReads(ns, list, o, i) ==
    IF i > Len(list) THEN {}
    ELSE LET name == NameAt(buffer, o)
             k == CommonPrefix(ns[list[i]].name, name, 0)
             here == o..(o + k)
         IN  IF strcmp(ns[list[i]].name, name) < 0
             THEN here \cup LinkReads(ns, list, o, i + 1)
             ELSE here

\* A filetype taken from the low twelve bits of the load address; it is not
\* the code's, and a load address of 0xffffff00 tells them apart.
ObjectFiletypeLowBits(load_address) == load_address % 4096

\* Lines 206 and 211: (entry->load_address >> 8) & 0xfff, on an int32_t.
ObjectFiletype(load_address) == (load_address \div 256) % 4096

\* The int32_t that the sum of two int32_t is stored as: the low 32 bits,
\* two's complement.
Add32(a, b) ==
    IF a > 0 /\ b > 2147483647 - a
    THEN ((a - 2147483647) - 1) + ((b - 2147483647) - 1)
    ELSE IF a < 0 /\ b < (0 - 2147483647) - 1 - a
    THEN ((a + 2147483647) + 1) + ((b + 2147483647) + 1)
    ELSE a + b

\* stronghelp_process_object(), for the entry at offset entry; stk holds
\* the callers.  The object keeps a pointer to the name in the buffer; the
\* model keeps the bytes from there to the NUL byte or to the end of the
\* buffer.  A size below 8 is kept as the negative number whose bits the
\* size_t has.  The used field of a directory block lies after the 8 bytes
\* that were looked up.  The length used - 12 is a size_t, so the test
\* length < 0 of line 255 never holds, and end (line 262) is the int32_t
\* that offset + length is stored as.
stronghelp_process_object(w, entry, parent, stk) ==
    LET object_offset == Word(buffer, entry)
        data == stronghelp_get_block_address(stronghelp_file_root,
                    stronghelp_file_length, object_offset, SizeofDataBlock)
        magic == Word(buffer, object_offset)
        b1 == Bytes(entry, 4) \cup Bytes(object_offset, 4)
        name == NameAt(buffer, entry + 24)
        filetype == ObjectFiletype(Word(buffer, entry + 4))
        empty == object_offset = 0 /\ magic = STRONGHELP_FILE_WORD
    IN  IF data.ret = NULLADDR
        THEN Failed(w, data.msgs, Bytes(entry, 4))
        ELSE IF empty \/ magic = STRONGHELP_DATA_WORD
        THEN LET size == IF empty THEN 0 ELSE Word(buffer, entry + 12) - 8
                 pointer == IF empty THEN 0 ELSE object_offset + 8
                 b2 == b1 \cup Bytes(entry + 4, 4)
                          \cup (IF empty THEN {} ELSE Bytes(entry + 12, 4))
                 w1 == objectdb_add_stronghelp_file(w, parent, name, size,
                            filetype, Payload(pointer, size))
             IN  IF parent = NULL THEN Failed(w1, <<>>, b2)
                 ELSE LET b3 == b2 \cup LinkReads(w.nodes,
                                     w.nodes[parent].files, entry + 24, 1)
                      IN  IF \E i \in b3 : i >= Len(buffer)
                          THEN Step("undefined", <<>>, w, b3, TRUE)
                          ELSE Returned(stk, w1, b3)
        ELSE IF magic = STRONGHELP_DIR_WORD
        THEN LET w1 == objectdb_add_stronghelp_directory(w, parent, name)
                 b2 == IF parent = NULL THEN b1
                       ELSE b1 \cup LinkReads(w.nodes,
                                w.nodes[parent].directories, entry + 24, 1)
                 b3 == b2 \cup Bytes(object_offset + 8, 4)
                 used == Word(buffer, object_offset + 8)
                 offset == object_offset + SizeofDirBlock
                 end == Add32(object_offset, used)
             IN  IF parent = NULL /\ w.root # NULL THEN Failed(w1, <<>>, b1)
                 ELSE IF \E i \in b2 : i >= Len(buffer)
                 THEN Step("undefined", <<>>, w, b2, TRUE)
                 ELSE IF object_offset + SizeofDirBlock > Len(buffer)
                 THEN Step("undefined", <<>>, w1, b3, TRUE)
                 ELSE IF end >= stronghelp_file_length
                 THEN Failed(w1, <<"MSG_OFFSET_RANGE">>, b3)
                 ELSE Step("entries",
                           Append(stk, EntriesLoop(offset, end, w1.ret)),
                           w1, b3, FALSE)
        ELSE Failed(w, <<"MSG_BAD_OBJECT_MAGIC">>, b1)

\* One turn of the loop of stronghelp_process_directory_entries (lines 274
\* to 286), for the loop on top of stk.
stronghelp_process_directory_entries(w, stk) ==
    LET top == stk[Len(stk)]
        entry == stronghelp_get_block_address(stronghelp_file_root,
                    stronghelp_file_length, top.offset, SizeofDirEntry)
    IN  IF ~(top.offset < top.end)
        THEN Returned(SubSeq(stk, 1, Len(stk) - 1), w, {})
        ELSE IF entry.ret = NULLADDR
        THEN Failed(w, entry.msgs \o <<"MSG_BAD_DIR_ENTRY">>, {})
        ELSE Step("object", Append(stk, ObjectCall(entry.ret, top.object)),
                  w, {}, FALSE)

\* The variables after a step of the object parser.
CommitStep(r) ==
    /\ stack' = r.stack
    /\ nodes' = r.nodes
    /\ objectdb_root' = r.root
    /\ msgs' = r.msgs
    /\ reads' = [reads EXCEPT !.bytes = @ \cup r.bytes]
    /\ IF r.undefined THEN spc' \in Undefined ELSE spc' = r.spc

\* Lines 141 to 155: the globals are set, the header is looked up and read
\* through the pointer, which is not tested.
InitialiseFile ==
    /\ spc = "start"
    /\ stronghelp_file_root' = 1
    /\ stronghelp_file_length' = Len(buffer)
    /\ LET header == stronghelp_get_block_address(1, Len(buffer), 0,
                                                  SizeofRoot)
       IN  IF header.ret = NULLADDR
           THEN /\ msgs' = msgs \o header.msgs
                /\ reads' = [reads EXCEPT !.null = TRUE]
                /\ spc' \in Undefined
                /\ walk' = walk
           ELSE /\ reads' = [reads EXCEPT !.bytes = @ \cup Bytes(0, SizeofRoot)]
                /\ IF Word(buffer, 0) # STRONGHELP_FILE_WORD
                   THEN /\ msgs' = Append(msgs, "MSG_BAD_FILE_MAGIC")
                        /\ spc' = "failed"
                        /\ walk' = walk
                   ELSE /\ msgs' = msgs
                        /\ spc' = "walk"
                        /\ walk' = [offset |-> Word(buffer, 12), depth |-> 0]
    /\ UNCHANGED <<pc, run, manual, flip, nodes, objectdb_root, fs, log, hist,
                   buffer, stack, probe>>

\* A walk of the free space whose failure ends the parse; it is not the
\* code's, and the parse of two containers tells them apart.
WalkFreeSpaceFatal ==
    /\ spc = "walk"
    /\ LET offset == walk.offset
           free == stronghelp_get_block_address(stronghelp_file_root,
                       stronghelp_file_length, offset, SizeofFreeBlock)
       IN  IF offset < 0
           THEN /\ spc' = "root"
                /\ UNCHANGED <<walk, reads, msgs>>
           ELSE IF free.ret = NULLADDR
           THEN /\ msgs' = msgs \o free.msgs
                /\ spc' = "failed"
                /\ UNCHANGED <<walk, reads>>
           ELSE /\ reads' = [reads EXCEPT
                                !.bytes = @ \cup Bytes(offset, SizeofFreeBlock)]
                /\ IF Word(buffer, offset) # STRONGHELP_FREE_WORD
                   THEN /\ msgs' = Append(msgs, "MSG_BAD_FREE_MAGIC")
                        /\ spc' = "failed"
                        /\ walk' = walk
                   ELSE /\ msgs' = msgs
                        /\ spc' = "walk"
                        /\ walk' = [offset |-> Word(buffer, offset + 8),
                                    depth |-> (walk.depth + 1) % DepthModulus]
    /\ UNCHANGED <<pc, run, manual, flip, nodes, objectdb_root, fs, log, hist,
                   buffer, stronghelp_file_root, stronghelp_file_length,
                   stack, probe>>

\* One call of stronghelp_walk_free_space (lines 297 to 322): it returns
\* to stronghelp_initialise_file, or calls itself for the next block.
WalkFreeSpace ==
    /\ spc = "walk"
    /\ LET offset == walk.offset
           free == stronghelp_get_block_address(stronghelp_file_root,
                       stronghelp_file_length, offset, SizeofFreeBlock)
       IN  IF offset < 0
           THEN /\ spc' = "root"
                /\ UNCHANGED <<walk, reads, msgs>>
           ELSE IF free.ret = NULLADDR
           THEN /\ msgs' = msgs \o free.msgs
                /\ spc' = "root"
                /\ UNCHANGED <<walk, reads>>
           ELSE /\ reads' = [reads EXCEPT
                                !.bytes = @ \cup Bytes(offset, SizeofFreeBlock)]
                /\ IF Word(buffer, offset) # STRONGHELP_FREE_WORD
                   THEN /\ msgs' = Append(msgs, "MSG_BAD_FREE_MAGIC")
                        /\ spc' = "root"
                        /\ walk' = walk
                   ELSE /\ msgs' = msgs
                        /\ spc' = "walk"
                        /\ walk' = [offset |-> Word(buffer, offset + 8),
                                    depth |-> (walk.depth + 1) % DepthModulus]
    /\ UNCHANGED <<pc, run, manual, flip, nodes, objectdb_root, fs, log, hist,
                   buffer, stronghelp_file_root, stronghelp_file_length,
                   stack, probe>>

\* Lines 164 to 172: the entry of the root directory is looked up and
\* stronghelp_process_object is called for it.
FindRoot ==
    /\ spc = "root"
    /\ LET root == stronghelp_get_block_address(stronghelp_file_root,
                       stronghelp_file_length, 16, SizeofDirEntry)
       IN  IF root.ret = NULLADDR
           THEN /\ msgs' = (msgs \o root.msgs) \o <<"MSG_MISSING_ROOT">>
                /\ spc' = "failed"
                /\ stack' = stack
           ELSE /\ msgs' = msgs
                /\ spc' = "object"
                /\ stack' = <<ObjectCall(root.ret, NULL)>>
    /\ UNCHANGED <<pc, run, manual, flip, nodes, objectdb_root, fs, log, hist,
                   buffer, stronghelp_file_root, stronghelp_file_length,
                   walk, reads, probe>>

\* A call of stronghelp_process_object, up to its return or to the call of
\* stronghelp_process_directory_entries for the directory it has added.
ProcessObject ==
    /\ spc = "object"
    /\ Len(nodes) < MaxObjects
    /\ LET call == stack[Len(stack)]
       IN  CommitStep(stronghelp_process_object(World(0, FALSE), call.offset,
                          call.object, SubSeq(stack, 1, Len(stack) - 1)))
    /\ UNCHANGED <<pc, run, manual, flip, fs, log, hist, buffer,
                   stronghelp_file_root, stronghelp_file_length, walk, probe>>

\* One turn of the loop of stronghelp_process_directory_entries.
DirectoryEntries ==
    /\ spc = "entries"
    /\ CommitStep(stronghelp_process_directory_entries(World(0, FALSE),
                                                       stack))
    /\ UNCHANGED <<pc, run, manual, flip, fs, log, hist, buffer,
                   stronghelp_file_root, stronghelp_file_length, walk, probe>>

\* A call of stronghelp_process_object for a directory block whose first
\* entry is the entry of the call, made while a call for that entry is
\* active: it adds a directory and calls itself for the same entry, with
\* the new directory as the parent, and nothing else differs.  Of the tree
\* MaxObjects objects are kept; the directories below them are counted
\* modulo DepthModulus, in the parent of the call.
Reenter ==
    /\ spc = "object"
    /\ Len(nodes) >= MaxObjects
    /\ LET call == stack[Len(stack)]
           object_offset == Word(buffer, call.offset)
       IN  /\ object_offset >= 0
           /\ object_offset + SizeofDirBlock < Len(buffer)
           /\ Word(buffer, object_offset) = STRONGHELP_DIR_WORD
           /\ object_offset + SizeofDirBlock = call.offset
           /\ call.offset < Add32(object_offset,
                                  Word(buffer, object_offset + 8))
           /\ Add32(object_offset, Word(buffer, object_offset + 8))
                 < stronghelp_file_length
           /\ call.offset + SizeofDirEntry < stronghelp_file_length
           /\ \E i \in 1..(Len(stack) - 2) :
                 /\ stack[i].kind = "entries"
                 /\ stack[i].offset = call.offset
           /\ stack' = [stack EXCEPT ![Len(stack)].object =
                            MaxObjects
                            + ((@ - MaxObjects + 1) % DepthModulus)]
    /\ UNCHANGED <<pc, run, manual, flip, nodes, objectdb_root, fs, log, msgs,
                   hist, spc, buffer, stronghelp_file_root,
                   stronghelp_file_length, walk, reads, probe>>

\* The pipeline is not running while a container is parsed on its own.
SyncIdle ==
    /\ pc = "idle"
    /\ run = 1
    /\ manual = Directory(Str(<<"$">>), <<>>)
    /\ flip = FALSE
    /\ fs = FsOf({})
    /\ nodes = <<>>
    /\ objectdb_root = NULL
    /\ log = <<>>
    /\ msgs = <<>>
    /\ hist = [empty |-> TRUE, update |-> FALSE, last |-> NoRun,
             report |-> NoSummary]

InitParse ==
    /\ SyncIdle
    /\ spc = "start"
    /\ buffer \in Containers
    /\ stronghelp_file_root = NULL
    /\ stronghelp_file_length = 0
    /\ walk = NoWalk
    /\ stack = <<>>
    /\ reads = NoReads
    /\ probe = NoProbe

NextParse ==
    \/ InitialiseFile
    \/ WalkFreeSpace
    \/ FindRoot
    \/ ProcessObject
    \/ DirectoryEntries
    \/ Reenter

SpecParse == InitParse /\ [][NextParse]_vars

\* Every call that is made is run: the program is one thread.
FairSpecParse == SpecParse /\ WF_vars(NextParse)

-----------------------------------------------------------------------------
(* The free space walk and the rest of the parse: the program is run on a  *)
(* container, and then, as a new process, on a container that differs      *)
(* from it in the free space chain alone.                                  *)

\* The bytes that make the free space chain of a Container: the
\* free_offset of the header and the next_offset of the two free blocks.
FreeSpaceFields == Bytes(12, 4) \cup Bytes(96 + 8, 4) \cup Bytes(108 + 8, 4)

SameButFreeSpace(a, b) ==
    /\ Len(a) = Len(b)
    /\ \A i \in 1..Len(a) : (i - 1) \notin FreeSpaceFields => a[i] = b[i]

\* Free space chains that end: empty, one block, two blocks, a block of
\* another kind, an offset beyond the file, at the head or after a block.
EndingFreeLists ==
    {[free_offset |-> f, next1 |-> n1, next2 |-> 0 - 1] :
        f \in {0 - 1, 96, 84, 4000}, n1 \in {0 - 1, 108, 4000}}

\* Directories: the file a, an entry that points at a free block, an empty
\* directory, and a name that runs on into the data block.
SomeDirectories ==
    {Plain, [Plain EXCEPT !.object_offset = 96], [Plain EXCEPT !.used = 12],
     [Plain EXCEPT !.filename = <<97, 98, 99, 100>>]}

FreeSpaceContainers ==
    {SubSeq(Container([d EXCEPT !.free_offset = f.free_offset,
                                !.next1 = f.next1, !.next2 = f.next2]),
            1, n) :
        d \in SomeDirectories, f \in EndingFreeLists, n \in {85, 124}}

\* Every read so far was of a byte of the buffer.
Defined ==
    /\ ~reads.null
    /\ \A i \in reads.bytes : i >= 0 /\ i < Len(buffer)

\* What stronghelp_initialise_file returned and what it built.
ParseOutcome ==
    [ret |-> spc = "done", nodes |-> nodes, root |-> objectdb_root,
     msgs |-> msgs, defined |-> Defined]

InitFreeSpace ==
    /\ SyncIdle
    /\ spc = "start"
    /\ buffer \in FreeSpaceContainers
    /\ stronghelp_file_root = NULL
    /\ stronghelp_file_length = 0
    /\ walk = NoWalk
    /\ stack = <<>>
    /\ reads = NoReads
    /\ probe = NoProbe

\* The program has ended; it is started again on another container, with
\* the globals of stronghelp.c, objectdb.c and msg.c as the loader sets
\* them.
ParseOther ==
    /\ spc \in {"done", "failed"}
    /\ run = 1
    /\ run' = 2
    /\ hist' = [hist EXCEPT !.last = ParseOutcome]
    /\ buffer' \in {b \in FreeSpaceContainers :
                       b # buffer /\ SameButFreeSpace(b, buffer)}
    /\ spc' = "start"
    /\ stronghelp_file_root' = NULL
    /\ stronghelp_file_length' = 0
    /\ walk' = NoWalk
    /\ stack' = <<>>
    /\ reads' = NoReads
    /\ nodes' = <<>>
    /\ objectdb_root' = NULL
    /\ msgs' = <<>>
    /\ UNCHANGED <<pc, manual, flip, fs, log, probe>>

NextFreeSpace ==
    \/ InitialiseFile
    \/ WalkFreeSpace
    \/ FindRoot
    \/ ProcessObject
    \/ DirectoryEntries
    \/ ParseOther

SpecFreeSpace == InitFreeSpace /\ [][NextFreeSpace]_vars

-----------------------------------------------------------------------------
(* strongex.c: main and strongex_process_file, from the loading of the     *)
(* source file to the exit of the process.  The messages of progress,      *)
(* which are of the levels MSG_INFO and MSG_VERBOSE, are not recorded.     *)

\* The containers the program is run on: the well-formed one, free space
\* chains that fail at the head or after a block, a root that cannot be
\* looked up, and a directory whose entry points at a free block.
MainContainers ==
    {Container(Plain),
     Container([Plain EXCEPT !.free_offset = 4000]),
     Container([Plain EXCEPT !.free_offset = 84]),
     Container([Plain EXCEPT !.free_offset = 96, !.next1 = 4000]),
     Container([Plain EXCEPT !.object_offset = 96]),
     SubSeq(Container(Plain), 1, 17),
     SubSeq(Container([Plain EXCEPT !.free_offset = 4000]), 1, 17)}

\* What fopen(), malloc() and fread() of lines 175 to 202 come to.
LoadOutcomes == {"MSG_OPEN_FAILED", "MSG_LOAD_FAILED", "loaded"}

InitMain ==
    /\ pc = "load"
    /\ run = 1
    /\ manual = Directory(Str(<<"$">>), <<>>)
    /\ flip \in BOOLEAN
    /\ fs \in Discs
    /\ nodes = <<>>
    /\ objectdb_root = NULL
    /\ log = <<>>
    /\ msgs = <<>>
    /\ hist = [empty |-> EmptyDisc(fs), update |-> FALSE, last |-> NoRun,
             report |-> NoSummary]
    /\ spc = "idle"
    /\ buffer \in MainContainers
    /\ stronghelp_file_root = NULL
    /\ stronghelp_file_length = 0
    /\ walk = NoWalk
    /\ stack = <<>>
    /\ reads = NoReads
    /\ probe = NoProbe

\* Lines 175 to 209: the source file is opened and read into the buffer,
\* and stronghelp_initialise_file is called.
LoadSource ==
    /\ pc = "load"
    /\ \E outcome \in LoadOutcomes :
          IF outcome = "loaded"
          THEN /\ pc' = "parse"
               /\ spc' = "start"
               /\ msgs' = msgs
          ELSE /\ pc' = "failed"
               /\ spc' = spc
               /\ msgs' = Append(msgs, outcome)
    /\ UNCHANGED <<run, manual, flip, nodes, objectdb_root, fs, log, hist,
                   buffer, stronghelp_file_root, stronghelp_file_length,
                   walk, stack, reads, probe>>

\* Lines 209 to 214: stronghelp_initialise_file has returned, or the
\* process has ended in it.
StrongHelpReturns ==
    /\ pc = "parse"
    /\ spc \in {"done", "failed", "crashed"}
    /\ pc' = CASE spc = "done" -> "read_disc"
               [] spc = "failed" -> "failed"
               [] spc = "crashed" -> "crashed"
    /\ UNCHANGED <<run, manual, flip, nodes, objectdb_root, fs, log, msgs,
                   hist, parseVars>>

\* An exit code that takes the result of the stages alone; it is not the
\* code's.
ExitCodeOfStages(processed, errors) ==
    IF ~processed THEN "EXIT_FAILURE" ELSE "EXIT_SUCCESS"

\* Lines 144 to 147 of main.
ExitCode(processed, errors) ==
    IF ~processed \/ errors THEN "EXIT_FAILURE" ELSE "EXIT_SUCCESS"

\* strongex_process_file has returned, true after MSG_COMPLETE (lines 236
\* to 238) and false from a stage, and main returns.
Exit ==
    /\ pc \in {"complete", "failed"}
    /\ pc' = ExitCode(pc = "complete", msg_errors(msgs))
    /\ hist' = [hist EXCEPT !.last = [NoRun EXCEPT !.ok = (pc = "complete")]]
    /\ UNCHANGED <<run, manual, flip, nodes, objectdb_root, fs, log, msgs,
                   parseVars>>

NextMain ==
    \/ LoadSource
    \/ InitialiseFile
    \/ WalkFreeSpace
    \/ FindRoot
    \/ ProcessObject
    \/ DirectoryEntries
    \/ StrongHelpReturns
    \/ DiscBuild
    \/ CheckStatus
    \/ Report
    \/ Update
    \/ SkipUpdate
    \/ Exit

SpecMain == InitMain /\ [][NextMain]_vars

-----------------------------------------------------------------------------
(* stronghelp_get_block_address on its own: the two globals and the two    *)
(* parameters are drawn, and the function is called once.                  *)

MaxFileLength == 40     \* the lengths and the offsets of the calls

ProbeSizes ==
    {0, SizeofDataBlock, SizeofFreeBlock, SizeofRoot, SizeofDirEntry}

InitAddress ==
    /\ SyncIdle
    /\ spc = "address"
    /\ buffer = <<>>
    /\ stronghelp_file_root \in {NULL, 1}
    /\ stronghelp_file_length \in 0..MaxFileLength
    /\ walk = NoWalk
    /\ stack = <<>>
    /\ reads = NoReads
    /\ \E offset \in (-2)..(MaxFileLength + 2), min_size \in ProbeSizes :
          probe = [called |-> FALSE, offset |-> offset,
                   min_size |-> min_size, ret |-> NULLADDR,
                   root |-> stronghelp_file_root,
                   length |-> stronghelp_file_length]

GetBlockAddress ==
    /\ spc = "address"
    /\ ~probe.called
    /\ LET r == stronghelp_get_block_address(stronghelp_file_root,
                    stronghelp_file_length, probe.offset, probe.min_size)
       IN  /\ probe' = [probe EXCEPT !.called = TRUE, !.ret = r.ret]
           /\ msgs' = msgs \o r.msgs
    /\ UNCHANGED <<pc, run, manual, flip, nodes, objectdb_root, fs, log, hist,
                   spc, buffer, stronghelp_file_root, stronghelp_file_length,
                   walk, stack, reads>>

NextAddress == GetBlockAddress

SpecAddress == InitAddress /\ [][NextAddress]_vars

-----------------------------------------------------------------------------
(* string.c and objectdb.c: the paths.  A buffer from malloc() is its      *)
(* size, the text it holds up to the NUL byte, and whether a byte was      *)
(* written beyond its end.                                                 *)

\* string_append(): the first loop steps to the NUL byte of the buffer buf,
\* the second one copies the source; each test that finds length at 0
\* leaves it at the largest size_t (kept as -1), so that the test of
\* length == 0 holds only when the text ends at the last byte.
string_append(buf, source, length) ==
    IF source = NULLNAME \/ length <= 0 THEN buf
    ELSE LET t == Len(buf.text)
             skipped == IF t <= length THEN t ELSE length
             r1 == IF t <= length THEN length - t ELSE 0 - 1
             s == Len(source)
             copied == IF r1 < 0 THEN s ELSE IF s <= r1 THEN s ELSE r1
             r2 == IF r1 < 0 THEN 0 - 1
                   ELSE IF s <= r1 THEN r1 - s ELSE 0 - 1
             end == skipped + copied
             p == IF r2 = 0 THEN end - 1 ELSE end
             text == SubSeq(buf.text, 1, skipped)
                         \o SubSeq(source, 1, copied)
         IN  [text |-> SubSeq(text, 1, p), size |-> buf.size,
              overflow |-> buf.overflow \/ p >= buf.size]

\* No buffer.
NoBuffer == [text |-> <<>>, size |-> 0 - 1, overflow |-> FALSE]

RECURSIVE objectdb_get_dir_path(_, _, _, _, _)
\* objectdb_get_dir_path(): the buffer with the path (NoBuffer for NULL),
\* the length handed back through the pointer, and whether strlen() was
\* called with a NULL part.
objectdb_get_dir_path(ns, dir, length, type, separator) ==
    LET part == PathPart(ns, dir, type)
        l == length + Len(part) + Len(separator)
    IN  IF part = NULLNAME
        THEN [name |-> NoBuffer, length |-> length, null |-> TRUE]
        ELSE IF ns[dir].parent # NULL
        THEN LET r == objectdb_get_dir_path(ns, ns[dir].parent, l, type,
                                            separator)
                 name == string_append(r.name, separator, r.length)
             IN  IF r.null \/ r.name = NoBuffer THEN r
                 ELSE [r EXCEPT !.name = string_append(name, part, r.length)]
        ELSE [name |-> string_append(
                           [text |-> <<>>, size |-> l, overflow |-> FALSE],
                           part, l),
              length |-> l, null |-> FALSE]

-----------------------------------------------------------------------------
(* objectdb.c on its own: the four insertions are called in any order,     *)
(* with any parent directory and any name, and objectdb_get_path is called *)
(* for any object.  probe holds the last call and the objects before it.   *)

MaxNodes == 3           \* the objects of the database

\* The names: "B", "a" and "ab".
Names == {<<66>>, <<97>>, <<97, 98>>}

\* The separators: "/", ".", "::" and the empty string.
Separators == {<<47>>, <<46>>, <<58, 58>>, <<>>}

PathTypes == {"AGNOSTIC", "STRONGHELP", "DISC"}

\* The objects that are directories: the root and the objects of the
\* directories lists.
DirectoryObjects(ns, root) ==
    {i \in 1..Len(ns) :
        \/ i = root
        \/ \E d \in 1..Len(ns) :
              \E k \in 1..Len(ns[d].directories) : ns[d].directories[k] = i}

NoCall ==
    [op |-> "none", parent |-> NULL, name |-> <<>>, ret |-> NULL,
     before |-> <<>>, root |-> NULL]

InitObjectdb ==
    /\ SyncIdle
    /\ spc = "objectdb"
    /\ buffer = <<>>
    /\ stronghelp_file_root = NULL
    /\ stronghelp_file_length = 0
    /\ walk = NoWalk
    /\ stack = <<>>
    /\ reads = NoReads
    /\ probe = NoCall

\* The variables after a call of an insertion.
CommitCall(op, parent, name, w) ==
    /\ nodes' = w.nodes
    /\ objectdb_root' = w.root
    /\ msgs' = w.msgs
    /\ probe' = [op |-> op, parent |-> parent, name |-> name, ret |-> w.ret,
                 before |-> nodes, root |-> objectdb_root]
    /\ UNCHANGED <<pc, run, manual, flip, fs, log, hist, spc, buffer,
                   stronghelp_file_root, stronghelp_file_length, walk, stack,
                   reads>>

\* The callers of the insertions return false when one of them has
\* failed: no call is made after an error.
CanCall ==
    /\ spc = "objectdb"
    /\ Len(nodes) < MaxNodes
    /\ msgs = <<>>

Parents == {NULL} \cup DirectoryObjects(nodes, objectdb_root)

AddStronghelpDirectory ==
    /\ CanCall
    /\ \E parent \in Parents, name \in Names :
          CommitCall("add_stronghelp_directory", parent, name,
              objectdb_add_stronghelp_directory(World(0, FALSE), parent,
                                                name))

AddStronghelpFile ==
    /\ CanCall
    /\ \E parent \in Parents, name \in Names :
          CommitCall("add_stronghelp_file", parent, name,
              objectdb_add_stronghelp_file(World(0, FALSE), parent, name, 1,
                                           4095, <<1>>))

AddDiscDirectory ==
    /\ CanCall
    /\ \E parent \in Parents, name \in Names :
          CommitCall("add_disc_directory", parent, name,
              objectdb_add_disc_directory(World(0, FALSE), parent, name,
                                          name))

AddDiscFile ==
    /\ CanCall
    /\ \E parent \in Parents, name \in Names :
       \E real_name \in {name, name \o Str(<<",", "f", "f", "f">>)} :
          CommitCall("add_disc_file", parent, name,
              objectdb_add_disc_file(World(0, FALSE), parent, name,
                                     real_name, 1, 4095))

NextObjectdb ==
    \/ AddStronghelpDirectory
    \/ AddStronghelpFile
    \/ AddDiscDirectory
    \/ AddDiscFile

SpecObjectdb == InitObjectdb /\ [][NextObjectdb]_vars

-----------------------------------------------------------------------------
(* objectdb_get_path on its own: a tree is built by the insertions, and    *)
(* the function is called once, for an object, a view and a separator.     *)

\* The world before any call.
EmptyWorld ==
    [nodes |-> <<>>, root |-> NULL, fs |-> FsOf({}), log |-> <<>>,
     msgs |-> <<>>, flip |-> FALSE, failAt |-> 0, short |-> FALSE,
     crashed |-> FALSE, ret |-> TRUE]

Sides == {"stronghelp", "disc", "both"}

\* A directory added from the sides given, under parent.
WithDirectory(w, parent, name, real_name, sides) ==
    LET w1 == IF sides = "disc" THEN w
              ELSE objectdb_add_stronghelp_directory(w, parent, name)
    IN  IF sides = "stronghelp" THEN w1
        ELSE objectdb_add_disc_directory(w1, parent, name, real_name)

\* A file added from the sides given, under parent.
WithFile(w, parent, name, real_name, sides) ==
    LET w1 == IF sides = "disc" THEN w
              ELSE objectdb_add_stronghelp_file(w, parent, name, 1, 4095,
                                                <<1>>)
    IN  IF sides = "stronghelp" THEN w1
        ELSE objectdb_add_disc_file(w1, parent, name, real_name, 1, 4095)

\* The trees: the root $ (out on disc), then nothing more, a file, a
\* directory, or a directory with a file in it; the names on disc carry
\* the filetype or differ from the names in the manual.
PathTrees ==
    LET roots == {WithDirectory(EmptyWorld, NULL, Str(<<"$">>),
                                Str(<<"o", "u", "t">>), s) :
                     s \in {"stronghelp", "both"}}
        files(W, parent) ==
            {WithFile(w, parent, n, n \o Str(<<",", "f", "f", "f">>), s) :
                w \in W, n \in {<<97>>, <<97, 98>>}, s \in Sides}
        dirs(W) ==
            {WithDirectory(w, 1, n, Str(<<"d">>), s) :
                w \in W, n \in {<<66>>, <<97>>}, s \in Sides}
    IN  {w.nodes : w \in roots \cup files(roots, 1) \cup dirs(roots)
                        \cup files(dirs(roots), 2)}

NoPath ==
    [op |-> "none", object |-> NULL, type |-> "AGNOSTIC",
     separator |-> <<>>, ret |-> [name |-> NoBuffer, length |-> 0,
                                  null |-> FALSE]]

InitPath ==
    /\ pc = "idle"
    /\ run = 1
    /\ manual = Directory(Str(<<"$">>), <<>>)
    /\ flip = FALSE
    /\ fs = FsOf({})
    /\ nodes \in PathTrees
    /\ objectdb_root = 1
    /\ log = <<>>
    /\ msgs = <<>>
    /\ hist = [empty |-> TRUE, update |-> FALSE, last |-> NoRun,
             report |-> NoSummary]
    /\ spc = "path"
    /\ buffer = <<>>
    /\ stronghelp_file_root = NULL
    /\ stronghelp_file_length = 0
    /\ walk = NoWalk
    /\ stack = <<>>
    /\ reads = NoReads
    /\ probe = NoPath

\* objectdb_get_path() for an object, a view and a separator.
GetPath ==
    /\ spc = "path"
    /\ probe.op = "none"
    /\ \E object \in 1..Len(nodes), type \in PathTypes,
          separator \in Separators :
          probe' = [op |-> "get_path", object |-> object, type |-> type,
                    separator |-> separator,
                    ret |-> objectdb_get_dir_path(nodes, object, 0, type,
                                                  separator)]
    /\ UNCHANGED <<pc, run, manual, flip, nodes, objectdb_root, fs, log,
                   msgs, hist, spc, buffer, stronghelp_file_root,
                   stronghelp_file_length, walk, stack, reads>>

NextPath == GetPath

SpecPath == InitPath /\ [][NextPath]_vars

-----------------------------------------------------------------------------
(* The properties of the status check.                                     *)

Range(list) == {list[i] : i \in 1..Len(list)}

\* The objects linked into the files list of a directory.
FileNodes ==
    {n \in 1..Len(nodes) : \E p \in 1..Len(nodes) : n \in Range(nodes[p].files)}

\* The root and the objects linked into the directories list of a directory.
DirNodes ==
    {n \in 1..Len(nodes) :
        \/ n = objectdb_root
        \/ \E p \in 1..Len(nodes) : n \in Range(nodes[p].directories)}

\* The status check has run and the disc is as it was when it ran.
Checked == pc \in {"report", "update"}

InManual(n) == nodes[n].stronghelp.name # NULLNAME

OnDisc(n) == nodes[n].disc.name # NULLNAME

\* The bytes of the disc file of an object are those of the manual's file.
SameBytes(n) ==
    LET path == objectdb_get_path(nodes, n, "DISC")
    IN  /\ IsFile(fs, path)
        /\ fs[path].data = nodes[n].stronghelp.data

\* C1: after objectdb_check_status the status of every file is the first of
\* Deleted (on disc only), Added (in the manual only), TypeChanged (the
\* filetypes differ), SizeChanged (the sizes differ), ContentChanged (the
\* bytes differ from the disc file's) whose test holds, and Identical when
\* none does; a differing filetype wins over a differing size or content.
C1_FileStatusPriority ==
    Checked =>
        \A n \in FileNodes :
            nodes[n].status =
                IF ~InManual(n) /\ OnDisc(n) THEN "Deleted"
                ELSE IF InManual(n) /\ ~OnDisc(n) THEN "Added"
                ELSE IF nodes[n].stronghelp.filetype # nodes[n].disc.filetype
                THEN "TypeChanged"
                ELSE IF nodes[n].stronghelp.size # nodes[n].disc.size
                THEN "SizeChanged"
                ELSE IF ~SameBytes(n) THEN "ContentChanged"
                ELSE "Identical"

\* A file whose filetype and size both differ is TypeChanged, next to a
\* file that is equal on both sides and Identical.
C1_Witness ==
    /\ Checked
    /\ \E n \in FileNodes :
          /\ InManual(n) /\ OnDisc(n)
          /\ nodes[n].stronghelp.filetype # nodes[n].disc.filetype
          /\ nodes[n].stronghelp.size # nodes[n].disc.size
          /\ nodes[n].status = "TypeChanged"
    /\ \E n \in FileNodes :
          /\ InManual(n) /\ OnDisc(n) /\ SameBytes(n)
          /\ nodes[n].status = "Identical"

\* C2: after objectdb_check_status every directory, the root included, is
\* Deleted when it is on disc only, Added when it is in the manual only and
\* Identical otherwise; it never has one of the other four statuses.
C2_DirectoryStatus ==
    Checked =>
        \A n \in DirNodes :
            /\ nodes[n].status =
                    IF ~InManual(n) /\ OnDisc(n) THEN "Deleted"
                    ELSE IF InManual(n) /\ ~OnDisc(n) THEN "Added"
                    ELSE "Identical"
            /\ nodes[n].status \notin {"TypeChanged", "SizeChanged",
                                         "ContentChanged", "Unknown"}

\* A directory found on disc only, with a directory below it, under a root
\* that is on both sides.
C2_Witness ==
    /\ Checked
    /\ nodes[objectdb_root].status = "Identical"
    /\ \E n, m \in DirNodes :
          /\ nodes[m].parent = n
          /\ ~InManual(n) /\ OnDisc(n) /\ nodes[n].status = "Deleted"
          /\ nodes[m].status = "Deleted"

-----------------------------------------------------------------------------
(* The properties of the update.                                           *)

RECURSIVE ValidEntries(_)
\* A directory of a manual as RISC OS can hold it: no name has a '.', which
\* is the directory separator of RISC OS, no two entries have the same
\* name, and the directories below it are valid too.
ValidEntries(entries) ==
    /\ \A i \in 1..Len(entries) :
          /\ \A k \in 1..Len(entries[i].name) : entries[i].name[k] # 46
          /\ \A j \in 1..Len(entries) :
                entries[i].name = entries[j].name => i = j
          /\ ValidEntries(entries[i].entries)

ValidManual == ValidEntries(manual.entries)

\* This is the second run, and the first run updated the disc with success.
SecondRun == run = 2 /\ hist.last.update /\ hist.last.ok

Mutating == {"make_directory", "delete_directory", "write_file", "delete_file"}

C4_Idempotent ==
    SecondRun =>
        /\ Checked => \A n \in 1..Len(nodes) : nodes[n].status = "Identical"
        /\ \A i \in 1..Len(log) : log[i].op \notin Mutating

\* C5: a directory is empty on disc when files_delete_directory is called
\* for it.
C5_EmptyWhenDeleted ==
    \A i \in 1..Len(log) : log[i].op = "delete_directory" => log[i].empty

\* C6: when a file is written or a directory is made, the directory that
\* holds it is on disc.
C6_ParentExists ==
    \A i \in 1..Len(log) :
        log[i].op \in {"write_file", "make_directory"} => log[i].parent

\* The output folder was absent: it is made first, then a directory in it,
\* then a file is written in that directory.
C6_Witness ==
    /\ Len(log) >= 3
    /\ log[1].op = "make_directory" /\ log[1].path = OutFolder /\ log[1].ok
    /\ \E i, j \in 1..Len(log) :
          /\ i < j
          /\ log[i].op = "make_directory" /\ log[i].ok
          /\ log[j].op = "write_file" /\ log[j].ok
          /\ Len(log[j].path) = 3
          /\ SubSeq(log[j].path, 1, 2) = log[i].path

\* What a successful primitive has left on a path that no later primitive
\* was called on.
LeftInPlace(i) ==
    LET e == log[i]
        last == \A j \in (i + 1)..Len(log) :
                    ~(log[j].path = e.path /\ log[j].op \in Mutating)
    IN  (e.ok /\ last) =>
            CASE e.op = "make_directory" -> IsDir(fs, e.path)
              [] e.op = "write_file" -> IsFile(fs, e.path)
              [] e.op \in {"delete_file", "delete_directory"} ->
                    e.path \notin DOMAIN fs
              [] OTHER -> TRUE

\* C7: the first primitive that fails is the last one called, the update
\* returns failure, and what the earlier primitives did stays on disc.
C7_AbortOnFailure ==
    /\ \A i \in 1..Len(log) : ~log[i].ok => i = Len(log)
    /\ (log # <<>> /\ ~log[Len(log)].ok) => pc = "failed"
    /\ \A i \in 1..Len(log) : LeftInPlace(i)

\* A primitive has failed after two that succeeded, with objects left that
\* the update has not reached: a file to write or a directory to remove.
C7_Witness ==
    /\ pc = "failed"
    /\ Len(log) >= 3
    /\ ~log[Len(log)].ok
    /\ log[1].ok /\ log[1].op \in Mutating
    /\ \E n \in 1..Len(nodes) :
          \/ nodes[n].status = "Added" /\ ~OnDisc(n)
          \/ /\ nodes[n].status = "Deleted"
             /\ objectdb_get_path(nodes, n, "DISC") \in DOMAIN fs
             /\ objectdb_get_path(nodes, n, "DISC") # log[Len(log)].path

-----------------------------------------------------------------------------
(* The properties of the container parser.                                 *)

\* C8: every byte that stronghelp_initialise_file reads is a byte of the
\* buffer: it lies at an offset from 0 to the length less one, and no read
\* goes through a NULL pointer, whatever the length.
C8_ReadsInBuffer ==
    /\ ~reads.null
    /\ \A i \in reads.bytes : i >= 0 /\ i < Len(buffer)

\* What the call of the probe must answer: failure when no buffer is
\* loaded, when the offset is negative, and when the block ends at or
\* after the end of the buffer.
ProbeFails ==
    \/ probe.root = NULL
    \/ probe.offset < 0
    \/ probe.offset + probe.min_size >= probe.length

ProbeAnswer ==
    /\ probe.ret = NULLADDR <=> ProbeFails
    /\ ~ProbeFails => probe.ret = probe.offset

\* The parser's globals and the object tree are as they were before the
\* call.
ProbeKeeps ==
    /\ stronghelp_file_root = probe.root
    /\ stronghelp_file_length = probe.length
    /\ buffer = <<>>
    /\ nodes = <<>>
    /\ objectdb_root = NULL

\* C9, as it is stated: stronghelp_get_block_address fails exactly when no
\* buffer is loaded, the offset is negative or offset + min_size reaches
\* the length, returns the address otherwise, and changes no state: not
\* the record of the messages either.
C9_NoStateChanged ==
    probe.called => ProbeAnswer /\ ProbeKeeps /\ msgs = <<>>

\* C9, amended: stronghelp_get_block_address fails exactly when no buffer
\* is loaded, the offset is negative or offset + min_size reaches the
\* length, and returns the address otherwise; it leaves the parser's
\* globals and the object tree alone, and when it fails it reports one
\* error message (no file, bad offset, or offset out of range), which the
\* messages module records.
C9_Contract ==
    probe.called =>
        /\ ProbeAnswer
        /\ ProbeKeeps
        /\ msgs = IF probe.root = NULL THEN <<"MSG_NO_FILE">>
                  ELSE IF probe.offset < 0 THEN <<"MSG_BAD_OFFSET">>
                  ELSE IF ProbeFails THEN <<"MSG_OFFSET_RANGE">>
                  ELSE <<>>

\* A block that ends exactly at the end of the buffer has been refused.
C9_Witness ==
    /\ probe.called
    /\ probe.root # NULL
    /\ probe.offset > 0
    /\ probe.min_size > 0
    /\ probe.offset + probe.min_size = probe.length
    /\ probe.ret = NULLADDR
    /\ msgs = <<"MSG_OFFSET_RANGE">>

\* C10: the walk of the free space list ends, whatever the buffer holds:
\* stronghelp_initialise_file gets past it.
C10_WalkTerminates == <>(spc \notin {"start", "walk"})

-----------------------------------------------------------------------------
(* The properties of the free space walk.                                  *)

\* The walk of the free space of this container reported a failure.
WalkFailed ==
    \E i \in 1..Len(msgs) : msgs[i] \in {"MSG_BAD_FREE_MAGIC",
                                          "MSG_OFFSET_RANGE", "MSG_BAD_OFFSET"}

\* C11: a failure of the free space walk does not end the parse: when
\* stronghelp_initialise_file has returned for two containers that differ
\* in the free space chain alone, and every read was of the buffer, it has
\* returned the same result and built the same object tree.
C11_WalkNotFatal ==
    (run = 2 /\ spc \in {"done", "failed"} /\ Defined /\ hist.last.defined) =>
        /\ (spc = "done") = hist.last.ret
        /\ nodes = hist.last.nodes
        /\ objectdb_root = hist.last.root

\* The container with a broken free space chain gave the tree that the
\* container with a sound chain had given.
C11_Witness ==
    /\ run = 2
    /\ spc = "done"
    /\ Defined
    /\ hist.last.defined
    /\ hist.last.ret
    /\ hist.last.msgs = <<>>
    /\ "MSG_BAD_FREE_MAGIC" \in Range(msgs)
    /\ Len(nodes) = 2
    /\ nodes = hist.last.nodes

-----------------------------------------------------------------------------
(* The properties of the object database.                                  *)

\* The objects without a parent.
Roots == {i \in 1..Len(nodes) : nodes[i].parent = NULL}

LastMessage == IF msgs = <<>> THEN "" ELSE msgs[Len(msgs)]

\* The call has failed and has left the database as it was.
CallRefused(token) ==
    /\ probe.ret = NULL
    /\ nodes = probe.before
    /\ objectdb_root = probe.root
    /\ LastMessage = token

\* C13: there is at most one root, and objectdb_root is it; a call of
\* objectdb_add_stronghelp_directory with no parent, when there is a root,
\* reports MSG_TOO_MANY_ROOTS, returns NULL and leaves the root and the
\* tree as they were; a call of objectdb_add_disc_directory with no parent
\* makes no object: it reports MSG_NO_ROOT and returns NULL when there is
\* no root, and stores the disc details in the root when there is one.
C13_OneRoot ==
    /\ Roots = IF objectdb_root = NULL THEN {} ELSE {objectdb_root}
    /\ (probe.op = "add_stronghelp_directory" /\ probe.parent = NULL
            /\ probe.root # NULL)
           => CallRefused("MSG_TOO_MANY_ROOTS")
    /\ (probe.op = "add_disc_directory" /\ probe.parent = NULL) =>
           IF probe.root = NULL THEN CallRefused("MSG_NO_ROOT")
           ELSE /\ probe.ret = probe.root
                /\ objectdb_root = probe.root
                /\ Len(nodes) = Len(probe.before)
                /\ nodes[probe.root].disc.name = probe.name
                /\ nodes[probe.root].stronghelp
                       = probe.before[probe.root].stronghelp

\* A second root was asked for, in a database that held a root and another
\* object, and was refused.
C13_Witness ==
    /\ probe.op = "add_stronghelp_directory"
    /\ probe.parent = NULL
    /\ probe.root # NULL
    /\ Len(probe.before) = 2
    /\ nodes = probe.before
    /\ msgs = <<"MSG_TOO_MANY_ROOTS">>

\* The names of a list of objects are all different.
DistinctNames(list) ==
    \A j, k \in 1..Len(list) :
        j # k => nodes[list[j]].name # nodes[list[k]].name

\* C14: no two objects of the directories list of an object, and no two
\* objects of its files list, have the same name, whatever insertions were
\* made.
C14_UniqueSiblings ==
    \A d \in 1..Len(nodes) :
        DistinctNames(nodes[d].directories) /\ DistinctNames(nodes[d].files)

\* The names of a list of objects ascend, as strcmp() orders them.
Ascending(list) ==
    \A k \in 1..(Len(list) - 1) :
        strcmp(nodes[list[k]].name, nodes[list[k + 1]].name) <= 0

\* C15: the directories list and the files list of every object are in
\* ascending order of the names, compared byte by byte, whatever the
\* order of the insertions.
C15_SortedLists ==
    \A d \in 1..Len(nodes) :
        Ascending(nodes[d].directories) /\ Ascending(nodes[d].files)

\* The file B was inserted after the file a and stands before it.
C15_Witness ==
    /\ objectdb_root # NULL
    /\ Len(nodes[objectdb_root].files) = 2
    /\ LET list == nodes[objectdb_root].files
       IN  /\ list[1] > list[2]
           /\ nodes[list[1]].name = <<66>>
           /\ nodes[list[2]].name = <<97>>

\* What a call for the disc side of a name must do with a list ("files" or
\* "directories") of the parent: store the details in the object of that
\* name when the list held one, and make one object with no StrongHelp
\* side otherwise.
AttachedOrInserted(which) ==
    LET held == {i \in Range(probe.before[probe.parent][which]) :
                    probe.before[i].name = probe.name}
    IN  IF held # {}
        THEN /\ probe.ret \in held
             /\ Len(nodes) = Len(probe.before)
             /\ nodes[probe.ret].stronghelp
                    = probe.before[probe.ret].stronghelp
             /\ nodes[probe.ret].disc.name # NULLNAME
        ELSE /\ Len(nodes) = Len(probe.before) + 1
             /\ probe.ret = Len(nodes)
             /\ nodes[probe.ret].stronghelp = NoDetails
             /\ nodes[probe.ret].disc.name # NULLNAME
             /\ probe.ret \in Range(nodes[probe.parent][which])

\* C16: objectdb_add_disc_file, called with a parent, stores the disc
\* details in an object that exists exactly when the files list of the
\* parent holds an object of that name: the number of objects and the
\* StrongHelp side of that object are then unchanged; otherwise it makes
\* one object with no StrongHelp side.  An object of the directories list
\* is never the one.  objectdb_add_disc_directory does the same with the
\* directories list.
C16_AttachByName ==
    /\ (probe.op = "add_disc_file" /\ probe.parent # NULL)
           => AttachedOrInserted("files")
    /\ (probe.op = "add_disc_directory" /\ probe.parent # NULL)
           => AttachedOrInserted("directories")

\* A disc file was added under a parent that held a directory of the same
\* name and no such file: a new object was made.
C16_Witness ==
    /\ probe.op = "add_disc_file"
    /\ probe.parent # NULL
    /\ \E i \in Range(probe.before[probe.parent].directories) :
          probe.before[i].name = probe.name
    /\ \A i \in Range(probe.before[probe.parent].files) :
          probe.before[i].name # probe.name
    /\ Len(nodes) = Len(probe.before) + 1

-----------------------------------------------------------------------------
(* The properties of the paths.                                            *)

\* The names, in the view of the call, from the root down to the object.
ProbeParts == objectdb_get_path(nodes, probe.object, probe.type)

RECURSIVE JoinPath(_, _)
\* p0 sep p1 sep ... sep pn.
JoinPath(parts, separator) ==
    IF Len(parts) = 1 THEN parts[1]
    ELSE JoinPath(SubSeq(parts, 1, Len(parts) - 1), separator)
             \o separator \o parts[Len(parts)]

\* C18: when the object or one of its ancestors has no name in the view
\* asked for, objectdb_get_path returns NULL and reads through no NULL
\* name.
C18_MissingNameIsAnError ==
    (probe.op = "get_path" /\ BadPath(ProbeParts)) =>
        probe.ret.name = NoBuffer /\ ~probe.ret.null

\* C19: when every object from the root down has a name in the view asked
\* for, objectdb_get_path returns these names joined by the separator,
\* whole, in a buffer that holds the string and its terminator, whatever
\* the separator is.
C19_ExactPath ==
    (probe.op = "get_path" /\ ~BadPath(ProbeParts)) =>
        /\ probe.ret.name # NoBuffer
        /\ probe.ret.name.text = JoinPath(ProbeParts, probe.separator)
        /\ ~probe.ret.name.overflow
        /\ probe.ret.name.size >= Len(probe.ret.name.text) + 1

-----------------------------------------------------------------------------
(* The properties of the comparison.                                       *)

\* The disc file of an object cannot be opened, or is shorter than the
\* file of the manual.
OpenFailsOrShort(n) ==
    LET path == objectdb_get_path(nodes, n, "DISC")
    IN  \/ ~IsFile(fs, path)
        \/ Len(fs[path].data) < nodes[n].stronghelp.size

\* C20: after the status check, a file that is on both sides with the same
\* filetype and the same size, and whose disc file could not be opened or
\* was shorter than the size, has MSG_OPEN_FAILED reported and is not
\* given the status ContentChanged.
C20_OpenFailedIsAnError ==
    pc = "report" =>
        \A n \in FileNodes :
            (/\ InManual(n)
             /\ OnDisc(n)
             /\ nodes[n].stronghelp.filetype = nodes[n].disc.filetype
             /\ nodes[n].stronghelp.size = nodes[n].disc.size
             /\ OpenFailsOrShort(n))
            => /\ "MSG_OPEN_FAILED" \in Range(msgs)
               /\ nodes[n].status # "ContentChanged"

-----------------------------------------------------------------------------
(* The properties of the report.                                           *)

\* The number of the objects of a set that have one of the statuses.
Count(objects, statuses) ==
    Cardinality({n \in objects : nodes[n].status \in statuses})

\* C17: after objectdb_output_report the counters of the summary are the
\* numbers of the directories with the status Added and Deleted, of the
\* files with the status Added and Deleted, and of the files with the
\* status TypeChanged, SizeChanged or ContentChanged; the message that
\* everything is identical is reported exactly when the five are zero.
C17_SummaryCounts ==
    pc = "update" =>
        /\ hist.report.directories_added = Count(DirNodes, {"Added"})
        /\ hist.report.directories_deleted = Count(DirNodes, {"Deleted"})
        /\ hist.report.files_added = Count(FileNodes, {"Added"})
        /\ hist.report.files_deleted = Count(FileNodes, {"Deleted"})
        /\ hist.report.files_changed =
               Count(FileNodes, {"TypeChanged", "SizeChanged",
                                 "ContentChanged"})
        /\ ("MSG_SUMMARY_IDENTICAL" \in Range(msgs))
               <=> hist.report = NoSummary

\* A report that counted a file whose filetype has changed, a file that
\* was deleted and a directory that was deleted.
C17_Witness ==
    /\ pc = "update"
    /\ hist.report.files_changed = 1
    /\ \E n \in FileNodes : nodes[n].status = "TypeChanged"
    /\ hist.report.files_deleted = 1
    /\ hist.report.directories_deleted = 1
    /\ "MSG_SUMMARY_IDENTICAL" \notin Range(msgs)

-----------------------------------------------------------------------------
(* The exit code of the process.                                           *)

\* main has returned.
Exited == pc \in {"EXIT_FAILURE", "EXIT_SUCCESS"}

\* A message of the level MSG_ERROR was reported at some point of the run.
ErrorReported == \E i \in 1..Len(msgs) : msgs[i] \in ErrorMessages

\* C12: when main returns from a run with a source and an output folder,
\* the exit code is EXIT_FAILURE if and only if a stage of
\* strongex_process_file returned false or a message of the level
\* MSG_ERROR was reported during the run, the failure of the free space
\* walk included; it is EXIT_SUCCESS otherwise.
C12_ExitCode ==
    Exited =>
        (pc = "EXIT_FAILURE" <=> (~hist.last.ok \/ ErrorReported))

\* The free space walk failed and reported it, every stage returned true,
\* and the process ended with EXIT_FAILURE.
C12_Witness ==
    /\ pc = "EXIT_FAILURE"
    /\ hist.last.ok
    /\ spc = "done"
    /\ \E i \in 1..Len(msgs) :
          msgs[i] \in {"MSG_BAD_OFFSET", "MSG_BAD_FREE_MAGIC",
                       "MSG_OFFSET_RANGE"}
    /\ \A i \in 1..Len(msgs) :
          msgs[i] \in ErrorMessages =>
             msgs[i] \in {"MSG_BAD_OFFSET", "MSG_BAD_FREE_MAGIC",
                          "MSG_OFFSET_RANGE"}

-----------------------------------------------------------------------------
(* The kind of an object of the container.                                 *)

\* The call of stronghelp_process_object that is about to run: its entry,
\* its parent, and the object_offset of the entry.
CallEntry == stack[Len(stack)].offset

CallParent == stack[Len(stack)].object

CallObjectOffset == Word(buffer, CallEntry)

\* The look-up of the data block header at object_offset succeeds.
LookedUp ==
    /\ CallObjectOffset >= 0
    /\ CallObjectOffset + SizeofDataBlock < Len(buffer)

\* The call adds one object, a child of its parent in the list which,
\* with these details of the manual.
AddsObject(which, size, filetype, data) ==
    /\ Len(nodes') = Len(nodes) + 1
    /\ LET new == nodes'[Len(nodes')]
       IN  /\ new.parent = CallParent
           /\ new.stronghelp.name = NameAt(buffer, CallEntry + 24)
           /\ new.stronghelp.size = size
           /\ new.stronghelp.filetype = filetype
           /\ new.stronghelp.data = data
           /\ CallParent # NULL =>
                 \E i \in 1..Len(nodes'[CallParent][which]) :
                    nodes'[CallParent][which][i] = Len(nodes')

\* C21: stronghelp_process_object decides the kind of an entry from the
\* word at object_offset.  An object_offset of 0 with the HELP word gives a
\* file of size 0 (no byte of the buffer is its payload); the DATA word
\* gives a file of size entry.size - 8 whose payload starts at
\* object_offset + 8; the DIR$ word gives a directory, and its entries
\* are processed next (or its block is refused); any other word fails
\* with MSG_BAD_OBJECT_MAGIC and adds no object.  The filetype of a file is
\* (load_address >> 8) & 0xfff.  Files are the entries of a directory.
C21_KindFromWord ==
    [][(spc = "object" /\ Len(nodes) < MaxObjects /\ LookedUp /\ Defined') =>
          LET word == Word(buffer, CallObjectOffset)
              filetype == (Word(buffer, CallEntry + 4) \div 256) % 4096
              size == Word(buffer, CallEntry + 12) - 8
          IN  IF CallObjectOffset = 0 /\ word = STRONGHELP_FILE_WORD
              THEN CallParent # NULL => AddsObject("files", 0, filetype, <<>>)
              ELSE IF word = STRONGHELP_DATA_WORD
              THEN CallParent # NULL =>
                      AddsObject("files", size, filetype,
                                 Payload(CallObjectOffset + 8, size))
              ELSE IF word = STRONGHELP_DIR_WORD
              THEN /\ AddsObject("directories", 0, OBJECTDB_TYPE_DIRECTORY,
                                 NULLNAME)
                   /\ \/ /\ spc' = "entries"
                         /\ stack'[Len(stack')] =
                               EntriesLoop(CallObjectOffset + SizeofDirBlock,
                                   stack'[Len(stack')].end, Len(nodes'))
                      \/ spc' = "failed"
              ELSE /\ nodes' = nodes
                   /\ spc' = "failed"
                   /\ msgs' = Append(msgs, "MSG_BAD_OBJECT_MAGIC")
      ]_vars

\* The entry of the file has an object_offset of 0, where the HELP word
\* is: the parse has made a file of no bytes for it, of the type fff.
C21_Witness ==
    /\ spc = "done"
    /\ Len(buffer) > 60
    /\ Word(buffer, 56) = 0
    /\ \E n \in 1..Len(nodes) :
          /\ nodes[n].parent # NULL
          /\ nodes[n].stronghelp.size = 0
          /\ nodes[n].stronghelp.filetype = 4095
          /\ nodes[n].stronghelp.data = <<>>

-----------------------------------------------------------------------------
(* The used count of a directory block.                                    *)

\* The call of stronghelp_process_object is for a directory block, whose
\* used field is in the buffer.
CallForDirectory ==
    /\ spc = "object"
    /\ LookedUp
    /\ Word(buffer, CallObjectOffset) = STRONGHELP_DIR_WORD
    /\ CallObjectOffset + SizeofDirBlock <= Len(buffer)

CallUsed == Word(buffer, CallObjectOffset + 8)

\* The call has failed, and the message is its last.
FailsWith(token) ==
    /\ spc' = "failed"
    /\ msgs' # <<>>
    /\ msgs'[Len(msgs')] = token

\* C23: a directory block whose used count is below the 12 bytes of its
\* header makes the parse fail with MSG_BAD_SIZE, and one whose entry list
\* ends at or beyond the length of the file makes it fail with
\* MSG_OFFSET_RANGE; such a block is never taken as a directory with no
\* entries.
C23_BadBlockRefused ==
    [][(CallForDirectory /\ Defined') =>
          /\ CallUsed < SizeofDirBlock => FailsWith("MSG_BAD_SIZE")
          /\ (CallUsed >= SizeofDirBlock
                /\ CallUsed >= Len(buffer) - CallObjectOffset)
                => FailsWith("MSG_OFFSET_RANGE")
      ]_vars

-----------------------------------------------------------------------------
(* The distance from one directory entry to the next.                      *)

\* The smallest multiple of 4 that is at least n.
CeilWord(n) == 4 * ((n + 3) \div 4)

\* A call of stronghelp_process_object has returned true to the loop of
\* stronghelp_process_directory_entries, which has stepped over the entry.
SteppedOver ==
    /\ spc \in {"object", "entries"}
    /\ spc' = "entries"
    /\ Len(stack') = Len(stack) - 1
    /\ stack' # <<>>

\* C24: the distance from a directory entry to the next is the smallest
\* multiple of 4 that is at least 24 + strlen(filename) + 1, whatever the
\* length of the name; the step is positive, and the offset of the loop
\* grows with every entry.
C24_EntryStep ==
    [][(SteppedOver /\ Defined') =>
          LET loop == Len(stack')
              from == stack[loop].offset
              length == NameEnd(buffer, from + 24) - (from + 24)
          IN  /\ stack'[loop].offset - from = CeilWord(24 + length + 1)
              /\ stack'[loop].offset > from
      ]_vars

\* The loop of the root directory has stepped over the entry of a file
\* whose name has three bytes, from 56 to 84.
C24_Witness ==
    /\ spc = "entries"
    /\ Len(stack) = 1
    /\ stack[1].offset = 84
    /\ Len(buffer) = 124
    /\ NameAt(buffer, 80) = <<97, 98, 99>>
    /\ Len(nodes) = 2

-----------------------------------------------------------------------------
(* The end of the parse.                                                   *)

\* C25: stronghelp_initialise_file ends for every buffer, also when a
\* directory entry points at the directory block that holds it: once the
\* free space walk is over, the parse of the objects comes to its end.
C25_ParseTerminates ==
    (spc = "root") ~> (spc \in {"done", "failed", "crashed"})

-----------------------------------------------------------------------------
(* The payload of a file of the manual.                                    *)

\* The files that the parser has made.
ParsedFiles ==
    {n \in 1..Len(nodes) :
        /\ nodes[n].stronghelp.name # NULLNAME
        /\ nodes[n].stronghelp.filetype # OBJECTDB_TYPE_DIRECTORY}

\* C26: every file that the parser makes has a size that is no wrapped
\* number, and its payload, of that many bytes from its data pointer, lies
\* in the buffer: the bytes kept for it are size bytes.
C26_PayloadInBuffer ==
    \A n \in ParsedFiles :
        /\ nodes[n].stronghelp.size >= 0
        /\ Len(nodes[n].stronghelp.data) = nodes[n].stronghelp.size

-----------------------------------------------------------------------------
(* The update of a file that has changed.                                  *)

\* The files whose status asks for a replacement.
ChangedFiles ==
    {n \in 1..Len(nodes) :
        nodes[n].status \in {"TypeChanged", "SizeChanged", "ContentChanged"}}

\* The path of the file on disc before the update, and the path that the
\* update writes: the same directory, and the name made from the name and
\* the filetype of the manual.
OldPath(n) == objectdb_get_path(nodes, n, "DISC")

NewPath(n) ==
    Append(SubSeq(OldPath(n), 1, Len(OldPath(n)) - 1),
           files_make_filename(nodes[n].stronghelp.name,
                               nodes[n].stronghelp.filetype))

\* The name of the object that a leaf name of the disc stands for.
CanonicalName(d_name) ==
    files_convert_name_to_riscos(files_get_filetype(d_name).name)

\* The files of f, in the directory of the node, that stand for the node.
FilesFor(f, n) ==
    {p \in DOMAIN f :
        /\ IsFile(f, p)
        /\ Len(p) = Len(OldPath(n))
        /\ SubSeq(p, 1, Len(p) - 1) = SubSeq(OldPath(n), 1, Len(p) - 1)
        /\ CanonicalName(p[Len(p)]) = nodes[n].name}

\* The step is a run of objectdb_update.
Updates == pc = "update" /\ hist'.update

\* Before the file is written it was deleted under its old name.
DeletedBeforeWritten(n) ==
    \A i \in 1..Len(log') :
        (log'[i].op = "write_file" /\ log'[i].path = NewPath(n)) =>
            \E j \in 1..(i - 1) :
                /\ log'[j].op = "delete_file"
                /\ log'[j].path = OldPath(n)
                /\ log'[j].ok

\* When the deletion has failed, the file is not written.
NotWrittenWhenKept(n) ==
    (\E j \in 1..Len(log') :
        /\ log'[j].op = "delete_file"
        /\ log'[j].path = OldPath(n)
        /\ ~log'[j].ok)
    => \A i \in 1..Len(log') :
          ~(log'[i].op = "write_file" /\ log'[i].path = NewPath(n))

\* After an update that succeeded, one file stands for the node, and it
\* holds the bytes of the manual.
OneFileOfTheManual(n) ==
    pc' = "complete" =>
        /\ FilesFor(fs', n) = {NewPath(n)}
        /\ fs'[NewPath(n)].data = nodes[n].stronghelp.data
        /\ Len(fs'[NewPath(n)].data) = nodes[n].stronghelp.size

\* C22: for every file whose status is TypeChanged, SizeChanged or
\* ContentChanged, objectdb_update deletes the file under its old name on
\* disc and only then writes the content of the manual under the name made
\* from the manual's name and filetype; when the deletion fails nothing
\* is written for the file; when every operation succeeds the disc holds
\* exactly one file for the node, with the bytes and the size of the manual.
C22_ReplaceChangedFiles ==
    [][Updates =>
          \A n \in ChangedFiles :
              /\ DeletedBeforeWritten(n)
              /\ NotWrittenWhenKept(n)
              /\ OneFileOfTheManual(n)
      ]_vars

-----------------------------------------------------------------------------
(* The output folder of a run that does not update.                        *)

\* The step calls a primitive of the filing system, or changes the disc.
TouchesDisc == fs' # fs \/ log' # log

\* The status check has given a status to every object.
AllChecked == \A n \in 1..Len(nodes) : nodes[n].status # "Unknown"

\* The report has ended with its summary.
ReportWritten == \E i \in 1..Len(msgs) : msgs[i] \in SummaryMessages

\* C27: without -update, and when the parse of the container, the reading
\* of the disc, the status check or the report fails, no primitive of the
\* filing system that changes the disc is called and the output folder
\* stays as it was found: the disc is touched by the update alone, which
\* runs with -update after the status check and the report have returned
\* true.
C27_NoUpdateNoChange ==
    [][TouchesDisc =>
          /\ pc = "update"
          /\ hist'.update
          /\ spc = "done"
          /\ AllChecked
          /\ ReportWritten
      ]_vars

\* A run without -update has ended with success: a file of the manual is
\* not on disc, and no primitive was called.
C27_Witness ==
    /\ pc = "complete"
    /\ ~hist.update
    /\ log = <<>>
    /\ \E n \in 1..Len(nodes) : nodes[n].status = "Added"

-----------------------------------------------------------------------------
(* The status of the objects of a directory that was added or deleted.     *)

RECURSIVE IsBelow(_, _)
\* The object n lies below the directory d, at any depth.
IsBelow(n, d) ==
    /\ nodes[n].parent # NULL
    /\ \/ nodes[n].parent = d
       \/ IsBelow(nodes[n].parent, d)

\* C28: after the two builds and a status check that returned true, every
\* object below a directory with the status Added has the status Added,
\* every object below a directory with the status Deleted has the status
\* Deleted, and the root directory has the status Identical.
C28_StatusInherited ==
    Checked =>
        /\ nodes[objectdb_root].status = "Identical"
        /\ \A d \in DirNodes, n \in 1..Len(nodes) :
              (nodes[d].status \in {"Added", "Deleted"} /\ IsBelow(n, d))
                 => nodes[n].status = nodes[d].status

\* A directory of the disc that the manual does not hold, with a file two
\* levels below it; the root holds a file of the manual as well.
C28_Witness ==
    /\ Checked
    /\ \E d \in DirNodes, n \in FileNodes :
          /\ nodes[d].status = "Deleted"
          /\ IsBelow(n, d)
          /\ nodes[n].parent # d
          /\ nodes[n].status = "Deleted"
    /\ \E n \in FileNodes : InManual(n)

-----------------------------------------------------------------------------
(* The paths of the disc view.                                             *)

\* A path of the disc view was asked for an object that has no name on
\* disc, or that lies below one: strlen() was given a NULL pointer.
DiscPathOfUnnamed == pc = "crashed"

\* The objects that the update has reached: all of them, when it has
\* returned true.
Updated == pc = "complete" /\ hist.update

\* C29: in a run of the pipeline, every path of the disc view (of the disc
\* reader, of the comparison and of the update) is asked for an object
\* that has a name on disc, as have the directories above it: the update
\* names an object with the status Added before it builds its path and
\* before it visits the objects below it.
C29_DiscPathsNamed ==
    /\ ~DiscPathOfUnnamed
    /\ Updated =>
          \A n \in 1..Len(nodes) :
              nodes[n].status = "Added" =>
                 /\ OnDisc(n)
                 /\ nodes[n].disc.name =
                       files_make_filename(nodes[n].stronghelp.name,
                                           nodes[n].stronghelp.filetype)
                 /\ \E i \in 1..Len(log) :
                       /\ log[i].op \in {"make_directory", "write_file"}
                       /\ log[i].path = objectdb_get_path(nodes, n, "DISC")
                       /\ log[i].parent

\* The update has made a directory of the manual that was not on disc, and
\* has written a file into it.
C29_Witness ==
    /\ Updated
    /\ \E d \in DirNodes, n \in FileNodes :
          /\ d # objectdb_root
          /\ nodes[d].status = "Added"
          /\ nodes[n].parent = d
          /\ nodes[n].status = "Added"
          /\ IsFile(fs, objectdb_get_path(nodes, n, "DISC"))

-----------------------------------------------------------------------------
(* The objects of the disc and the objects of the database.                *)

\* The disc reader has returned true and the disc is as it has read it.
DiscRead == pc \in {"compare", "report", "update"} /\ IsDir(fs, OutFolder)

\* C30: after the build of the disc side, every object of the output
\* folder is the disc side of an object of its own: as many objects have
\* a disc side as the output folder holds, itself included, also when two
\* names of a directory reduce to the same name.
C30_EveryDiscObjectTracked ==
    DiscRead =>
        Cardinality({n \in 1..Len(nodes) : OnDisc(n)})
            = Cardinality(DOMAIN fs)

=============================================================================
